---- MODULE Spec2Model ----
(***************************************************************************)
(* Terrain pipeline of the fractale repository: geo.c (diamond-square,     *)
(* bilinear resampling, 3x3 smoothing, water flood, value output),         *)
(* plasma.c (size check, diamond-square, resampling, box blur,             *)
(* normalisation), iso.c (input, projection, triangle fill, PPM output)    *)
(* and fractale_static.c (ratio option, chaos game).                       *)
(*                                                                         *)
(* Numbers.  A C double is modelled as a fixed-point integer counted in    *)
(* units of 1/ONE; a division truncates toward minus infinity.  NaN is a   *)
(* distinguished value that every arithmetic operation propagates and      *)
(* every comparison answers with FALSE, as IEEE 754 does.  In normalize01  *)
(* the range of the type is kept as well, scaled to the model: DBL_MAX is  *)
(* the largest finite value and a larger difference is Inf.  An int keeps  *)
(* its 32 bits.                                                            *)
(*                                                                         *)
(* Undefined behaviour.  A store past the end of a malloc'ed array does    *)
(* not land in the array; a load past the end, and a load of a cell that   *)
(* was never written, yield a value chosen nondeterministically.  After an *)
(* out-of-bounds store the heap is damaged and free() may abort.  An int   *)
(* product that does not fit is delivered wrapped, or traps.               *)
(***************************************************************************)
EXTENDS Integers, Sequences, FiniteSets, TLC

(***************************************************************************)
(* Bounds of the model                                                     *)
(***************************************************************************)
\* largest number of cells W*H, and largest side, of a grid given to the flood
MaxCells == 9

MaxSide == 3

\* elevations of the grids given to the flood, and the water levels tried:
\* a cell is below, at or above the level
Elevations == {0, 2}

Levels == {0, 1}

\* --seed x,y arguments tried (before clamping into the grid)
SeedPoints == {<<1, 1>>, <<-1, 5>>}

\* largest output width and height given to the resamplers
MaxOut == 4

\* largest side of a grid given to the smoothers, largest radius and largest
\* number of passes
MaxBlurSide == 2

MaxRadius == 1

MaxBlurPasses == 2

\* iso: -x / -y, -tw, -th, -zs tried, and the elevations read, in 1/HDen
IsoSides == 1 .. 2

TileWidths == {1, 2}

TileHeights == {2, 4}

VerticalScales == {0, 2}

IsoHeights == {0, 1000}

\* elevations of the flat grids tried: they give g_top = 0, 1, 2, 3 and 255
FlatHeights == {0, 4, 8, 12, 1000}

\* iso's input: largest W*H and largest number of tokens in the text; largest
\* number of pixels of the image written
MaxInCells == 2

MaxTokens == 3

MaxPixels == 2

\* sides P of the source grids given to the resamplers (2^n + 1)
SourceSides == {2, 3}

\* largest -x / -y given to geo, and largest -f
MaxDim == 4

MaxPasses == 1

\* cells of a grid handed to normalize01
MaxNorm == 3

\* iterations of the chaos game
MaxIter == 3

\* -x / -y given to plasma
PlasmaDims == 1 .. 3

\* -s, -a and -k given to the generators; -k as <<numerator, denominator>>
Seeds == {0, 42}

Amplitudes == {1, 2}

Roughnesses == {<<1, 2>>, <<1, 1>>}

(***************************************************************************)
(* Numbers                                                                 *)
(***************************************************************************)
\* 1.0 in fixed point; rng_rand01 divides its 24 bits by 0x1000000
ONE == 16777216

\* the IEEE NaN, and the content of a cell that was never written
NaN == 0 - 100 * ONE

Uninit == NaN - 1

\* values a load of indeterminate memory is drawn from
Garbage == {0, NaN}

\* iso: an elevation is counted in thousandths
HDen == 1000

\* values of rand() / RAND_MAX tried in plasma (0.0 and 1.0)
RandSamples == {0, ONE}

\* cell values of the grids given to the smoothers (0.0 and 1.0)
BlurSamples == {0, ONE}

\* cell values of the source grids given to the resamplers (-0.25 and 1.0)
SrcSamples == {0 - ONE \div 4, ONE}

(***************************************************************************)
(* State                                                                   *)
(***************************************************************************)
VARIABLES
    \* flood_from_edges_or_seed (geo.c): parameters
    W, H, h, level, seed_set, sx, sy,
    \* flood_from_edges_or_seed: locals and result
    mask, queue_x, queue_y, qh, qt, i, fpc,
    \* observation of the flood: enqueues per cell, out-of-bounds store seen,
    \* cells dequeued and expanded, malloc of the queue failed
    enq, oob, deq, alloc_failed,
    \* the same flood with the pending cells taken in arbitrary order
    amask, pending, apc,
    \* resample_bilinear (geo.c, plasma.c): arguments, result, caller
    rsrc, rP, rW, rH, rout, rgarbage, rpc,
    \* synthesis: which program runs (geo, plasma) and its options
    \* (plasma's AMP and DECAY are kept in AMP0 and ROUGH)
    gen, GRID_W, GRID_H, SEED, AMP0, ROUGH, SMOOTH_PASSES,
    \* ds_generate / diamond_square: side, buffer, generator state, locals
    \* heap: what the memory malloc returned for ds holds before it is written
    dsP, ds, heap, rng_state, scale, step, dsx, dsy, spc,
    \* main: the resampled map, the smoothing pass, the run (1 or 2), the
    \* grids of the first run, the last cell written by the generator
    map, pass, run, first, last,
    \* smoothing (smooth_box, box_blur): the grid given, W, H, radius, passes,
    \* the grid afterwards, whether a malloc of tmp returned NULL, position
    bgrid, bW, bH, br, bp, bout, tmp_failed, bpc,
    \* main after the smoothing: exit status (-1: running), whether a message
    \* went to stderr, whether the grid was printed
    bexit, bmsg, bprinted,
    \* iso: GRID_W, GRID_H, tile size, vertical scale, background, the grid of
    \* elevations read, the framebuffer, the faces painted so far (in order),
    \* the loop variables s and x, position
    iso_W, iso_H, TILE_W, TILE_H, ZS, BG, hmap, fb, painted, iso_s, iso_x, ipc,
    \* input and output of iso and geo: the program, the tokens of the input
    \* text, W*H, the cells read, the output path before the run and now, the
    \* number of pixel bytes of the image, the exit status (-1: running),
    \* whether a message went to stderr, position
    prog, in_tokens, ncells, nread, out_before, out_file, want, exit_status,
    errmsg, iopc,
    \* geo main: the water policy, the option --values-with-water, the values printed; position
    WATER_FROM_EDGE, VALUES_WITH_WATER, printed, wpc,
    \* plasma normalize01: the grid handed in, the grid after the call; position
    ngrid, nout, npc,
    \* plasma main: the size asked for, the cells requested for src and dst; position
    width, height, src_cells, dst_cells, szpc,
    \* iso fill_tri: the framebuffer size, the three vertices, the stores made by put_px; position
    tri_W, tri_H, tri_p, tri_stores, tpc,
    \* fractale main: the argument of -r, the options, the point, the counters, the exit; position
    r_arg, RATIO_NUM, RATIO_DEN, ITERATIONS, WARMUP, cw, cg_x, cg_y, cg_i, hits, maxhit, cg_exit, cg_msg, cpc

floodVars == <<W, H, h, level, seed_set, sx, sy, mask, queue_x, queue_y, qh, qt,
               i, fpc, enq, oob, deq, alloc_failed, amask, pending, apc>>

resampleVars == <<rsrc, rP, rW, rH, rout, rgarbage, rpc>>

synthVars == <<gen, GRID_W, GRID_H, SEED, AMP0, ROUGH, SMOOTH_PASSES, dsP, ds,
               heap, rng_state, scale, step, dsx, dsy, spc, map, pass, run, first, last>>

blurVars == <<bgrid, bW, bH, br, bp, bout, tmp_failed, bpc, bexit, bmsg, bprinted>>

isoVars == <<iso_W, iso_H, TILE_W, TILE_H, ZS, BG, hmap, fb, painted, iso_s, iso_x, ipc>>

ioVars == <<prog, in_tokens, ncells, nread, out_before, out_file, want,
            exit_status, errmsg, iopc>>

waterVars == <<WATER_FROM_EDGE, VALUES_WITH_WATER, printed, wpc>>

normVars == <<ngrid, nout, npc>>

sizeVars == <<width, height, src_cells, dst_cells, szpc>>

triVars == <<tri_W, tri_H, tri_p, tri_stores, tpc>>

chaosVars == <<r_arg, RATIO_NUM, RATIO_DEN, ITERATIONS, WARMUP, cw, cg_x, cg_y, cg_i, hits, maxhit, cg_exit, cg_msg, cpc>>

vars == <<floodVars, resampleVars, synthVars, blurVars, isoVars, ioVars, waterVars, normVars, sizeVars, triVars, chaosVars>>

notResample == <<floodVars, synthVars, blurVars, isoVars, ioVars, waterVars, normVars, sizeVars, triVars, chaosVars>>

notSynth == <<floodVars, resampleVars, blurVars, isoVars, ioVars, waterVars, normVars, sizeVars, triVars, chaosVars>>

notBlur == <<floodVars, resampleVars, synthVars, isoVars, ioVars, waterVars, normVars, sizeVars, triVars, chaosVars>>

notIso == <<floodVars, resampleVars, synthVars, blurVars, ioVars, waterVars, normVars, sizeVars, triVars, chaosVars>>

notIO == <<floodVars, resampleVars, synthVars, blurVars, isoVars, waterVars, normVars, sizeVars, triVars, chaosVars>>

notWater == <<floodVars, resampleVars, synthVars, blurVars, isoVars, ioVars, normVars, sizeVars, triVars, chaosVars>>

WaterIdle ==
    /\ WATER_FROM_EDGE = 1
    /\ VALUES_WITH_WATER = 0
    /\ printed = <<>>
    /\ wpc = "off"

notNorm == <<floodVars, resampleVars, synthVars, blurVars, isoVars, ioVars, waterVars, sizeVars, triVars, chaosVars>>

NormIdle ==
    /\ ngrid = <<>>
    /\ nout = <<>>
    /\ npc = "off"

notSize == <<floodVars, resampleVars, synthVars, blurVars, isoVars, ioVars, waterVars, normVars, triVars, chaosVars>>

SizeIdle ==
    /\ width = 1
    /\ height = 1
    /\ src_cells = 0
    /\ dst_cells = 0
    /\ szpc = "off"

notTri == <<floodVars, resampleVars, synthVars, blurVars, isoVars, ioVars, waterVars, normVars, sizeVars, chaosVars>>

TriIdle ==
    /\ tri_W = 1
    /\ tri_H = 1
    /\ tri_p = <<>>
    /\ tri_stores = {}
    /\ tpc = "off"

notChaos == <<floodVars, resampleVars, synthVars, blurVars, isoVars, ioVars, waterVars, normVars, sizeVars, triVars>>

ChaosIdle ==
    /\ r_arg = <<>>
    /\ RATIO_NUM = 1
    /\ RATIO_DEN = 2
    /\ ITERATIONS = 0
    /\ WARMUP = 0
    /\ cw = <<1, 1, 1>>
    /\ cg_x = 0
    /\ cg_y = 0
    /\ cg_i = 0
    /\ hits = <<>>
    /\ maxhit = 0
    /\ cg_exit = 0 - 1
    /\ cg_msg = FALSE
    /\ cpc = "off"

IOIdle ==
    /\ prog = "off"
    /\ in_tokens = <<>>
    /\ ncells = 0
    /\ nread = 0
    /\ out_before = [state |-> "absent", bytes |-> 0]
    /\ out_file = [state |-> "absent", bytes |-> 0]
    /\ want = 0
    /\ exit_status = 0
    /\ errmsg = FALSE
    /\ iopc = "off"

IsoIdle ==
    /\ iso_W = 0
    /\ iso_H = 0
    /\ TILE_W = 0
    /\ TILE_H = 0
    /\ ZS = 0
    /\ BG = <<0, 0, 0>>
    /\ hmap = <<>>
    /\ fb = <<>>
    /\ painted = <<>>
    /\ iso_s = 0
    /\ iso_x = 0
    /\ ipc = "off"

BlurIdle ==
    /\ bgrid = <<>>
    /\ bW = 0
    /\ bH = 0
    /\ br = 0
    /\ bp = 0
    /\ bout = <<>>
    /\ tmp_failed = FALSE
    /\ bpc = "off"
    /\ bexit = 0
    /\ bmsg = FALSE
    /\ bprinted = FALSE

\* the parts of the state a specification does not run
ResampleIdle ==
    /\ rsrc = <<>>
    /\ rP = 0
    /\ rW = 0
    /\ rH = 0
    /\ rout = <<>>
    /\ rgarbage = 0
    /\ rpc = "off"

NoWrite == [kind |-> "none", x |-> 0, y |-> 0, half |-> 0, off |-> 0]

SynthIdle ==
    /\ gen = "off"
    /\ GRID_W = 0
    /\ GRID_H = 0
    /\ SEED = 0
    /\ AMP0 = 0
    /\ ROUGH = <<1, 1>>
    /\ SMOOTH_PASSES = 0
    /\ dsP = 0
    /\ ds = <<>>
    /\ heap = 0
    /\ rng_state = 0
    /\ scale = <<1, 1>>
    /\ step = 0
    /\ dsx = 0
    /\ dsy = 0
    /\ spc = "off"
    /\ map = <<>>
    /\ pass = 0
    /\ run = 0
    /\ first = <<>>
    /\ last = NoWrite

(***************************************************************************)
(* geo.c: water                                                            *)
(***************************************************************************)
Cells == 0 .. (W * H - 1)

CellX(c) == c % W

CellY(c) == c \div W

\* qcap = W*H
qcap == W * H

\* static const int dx[4] = {1,-1,0,0}; dy[4] = {0,0,1,-1};
dx == <<1, -1, 0, 0>>

dy == <<0, 0, 1, -1>>

\* mask[..] = 1; queue_x[qt] = x; queue_y[qt] = y; qt++;
\* a store at qt >= qcap is outside the two arrays
Enqueue(st, x, y) ==
    [mask |-> [st.mask EXCEPT ![y * W + x] = 1],
     queue_x |-> IF st.qt < qcap THEN Append(st.queue_x, x) ELSE st.queue_x,
     queue_y |-> IF st.qt < qcap THEN Append(st.queue_y, y) ELSE st.queue_y,
     qt |-> st.qt + 1,
     enq |-> [st.enq EXCEPT ![y * W + x] = @ + 1],
     oob |-> st.oob \/ st.qt >= qcap,
     deq |-> st.deq]

\* if (h[y*W+x] <= level) { enqueue }   -- the border loops test no mask
SeedIfBelow(st, x, y) ==
    IF h[y * W + x] <= level THEN Enqueue(st, x, y) ELSE st

\* one neighbour of the BFS expansion
Visit(st, nx, ny) ==
    IF nx < 0 \/ ny < 0 \/ nx >= W \/ ny >= H THEN st
    ELSE IF st.mask[ny * W + nx] = 1 THEN st
    ELSE IF h[ny * W + nx] <= level THEN Enqueue(st, nx, ny)
    ELSE st

\* for (k = 0; k < 4; ++k) over the neighbours of (cx,cy)
RECURSIVE Expand(_, _, _, _)
Expand(st, cx, cy, k) ==
    IF k > 4 THEN st
    ELSE Expand(Visit(st, cx + dx[k], cy + dy[k]), cx, cy, k + 1)

FloodState == [mask |-> mask, queue_x |-> queue_x, queue_y |-> queue_y,
               qt |-> qt, enq |-> enq, oob |-> oob, deq |-> deq]

SetFloodState(st) ==
    /\ mask' = st.mask
    /\ queue_x' = st.queue_x
    /\ queue_y' = st.queue_y
    /\ qt' = st.qt
    /\ enq' = st.enq
    /\ oob' = st.oob
    /\ deq' = st.deq

anyVars == <<amask, pending, apc>>

notFlood == <<resampleVars, synthVars, blurVars, isoVars, ioVars, waterVars, normVars, sizeVars, triVars, chaosVars>>

floodParams == <<W, H, h, level, seed_set, sx, sy>>

\* mask cleared, then the two queue arrays are allocated; a failed malloc returns
FloodStart ==
    /\ fpc = "start"
    /\ \/ /\ fpc' = "rows"
          /\ alloc_failed' = FALSE
       \/ /\ fpc' = "done"
          /\ alloc_failed' = TRUE
    /\ UNCHANGED notFlood
    /\ UNCHANGED <<floodParams, mask, queue_x, queue_y, qh, qt, i, enq, oob, deq, anyVars>>

\* for (x = 0; x < W; ++x): top row, then bottom row
SeedRows ==
    /\ fpc = "rows"
    /\ SetFloodState(SeedIfBelow(SeedIfBelow(FloodState, i, 0), i, H - 1))
    /\ IF i + 1 < W
       THEN i' = i + 1 /\ fpc' = fpc
       ELSE i' = 0 /\ fpc' = "cols"
    /\ UNCHANGED notFlood
    /\ UNCHANGED <<floodParams, qh, alloc_failed, anyVars>>

\* for (y = 0; y < H; ++y): left column, then right column
SeedCols ==
    /\ fpc = "cols"
    /\ SetFloodState(SeedIfBelow(SeedIfBelow(FloodState, 0, i), W - 1, i))
    /\ IF i + 1 < H
       THEN i' = i + 1 /\ fpc' = fpc
       ELSE i' = 0 /\ fpc' = "seed"
    /\ UNCHANGED notFlood
    /\ UNCHANGED <<floodParams, qh, alloc_failed, anyVars>>

Clamp(v, lo, hi) == IF v < lo THEN lo ELSE IF v > hi THEN hi ELSE v

\* optional single seed, clamped into the grid
SeedPoint ==
    /\ fpc = "seed"
    /\ LET cx == Clamp(sx, 0, W - 1)
           cy == Clamp(sy, 0, H - 1)
       IN  IF seed_set = 1 /\ h[cy * W + cx] <= level /\ mask[cy * W + cx] = 0
           THEN SetFloodState(Enqueue(FloodState, cx, cy))
           ELSE UNCHANGED <<mask, queue_x, queue_y, qt, enq, oob, deq>>
    /\ fpc' = "bfs"
    /\ UNCHANGED notFlood
    /\ UNCHANGED <<floodParams, qh, i, alloc_failed, anyVars>>

\* one turn of while (qh < qt): dequeue a cell, visit its four neighbours.
\* A slot at qh >= qcap is outside the arrays: the load yields any cell.
BfsStep ==
    /\ fpc = "bfs"
    /\ qh < qt
    /\ \E c \in Cells :
          /\ qh < qcap => c = queue_y[qh + 1] * W + queue_x[qh + 1]
          /\ SetFloodState([Expand(FloodState, CellX(c), CellY(c), 1)
                               EXCEPT !.deq = @ \cup {c}])
    /\ qh' = qh + 1
    /\ UNCHANGED notFlood
    /\ UNCHANGED <<floodParams, i, fpc, alloc_failed, anyVars>>

\* qh == qt: free the queues and return
FloodReturn ==
    /\ fpc = "bfs"
    /\ qh >= qt
    /\ fpc' = "done"
    /\ UNCHANGED notFlood
    /\ UNCHANGED <<floodParams, mask, queue_x, queue_y, qh, qt, i, enq, oob, deq,
                   alloc_failed, anyVars>>

\* qh == qt after a store past the end of the queue: the store damaged the
\* heap, and free() may kill the process instead of returning
FloodAbort ==
    /\ fpc = "bfs"
    /\ qh >= qt
    /\ oob
    /\ fpc' = "aborted"
    /\ UNCHANGED notFlood
    /\ UNCHANGED <<floodParams, mask, queue_x, queue_y, qh, qt, i, enq, oob, deq,
                   alloc_failed, anyVars>>

\* mark_all_below with a strict comparison
mark_all_below_strict(hh, lv) == [c \in DOMAIN hh |-> IF hh[c] < lv THEN 1 ELSE 0]

\* mark_all_below: mask[i] = (h[i] <= level)
mark_all_below(hh, lv) == [c \in DOMAIN hh |-> IF hh[c] <= lv THEN 1 ELSE 0]

(***************************************************************************)
(* The sources of the flood, and the flood with an arbitrary visiting order *)
(***************************************************************************)
IsBorder(c) == CellX(c) = 0 \/ CellX(c) = W - 1 \/ CellY(c) = 0 \/ CellY(c) = H - 1

Adjacent(c, d) ==
    \/ CellY(c) = CellY(d) /\ (CellX(c) = CellX(d) + 1 \/ CellX(d) = CellX(c) + 1)
    \/ CellX(c) = CellX(d) /\ (CellY(c) = CellY(d) + 1 \/ CellY(d) = CellY(c) + 1)

BorderSources == {c \in Cells : IsBorder(c) /\ h[c] <= level}

SeedCell == Clamp(sy, 0, H - 1) * W + Clamp(sx, 0, W - 1)

SeedSources == IF seed_set = 1 /\ h[SeedCell] <= level THEN {SeedCell} ELSE {}

\* start of the arbitrary-order flood, on the grid the code's flood is given
AnyStart ==
    /\ fpc = "start"
    /\ apc = "idle"
    /\ pending' = BorderSources \cup SeedSources
    /\ amask' = [c \in Cells |-> IF c \in BorderSources \cup SeedSources THEN 1 ELSE 0]
    /\ apc' = "run"
    /\ UNCHANGED notFlood
    /\ UNCHANGED <<floodParams, mask, queue_x, queue_y, qh, qt, i, fpc, enq, oob, deq,
                   alloc_failed>>

\* take any pending cell; its neighbours that are below the level and not yet
\* marked become marked and pending
AnyStep ==
    /\ apc = "run"
    /\ pending # {}
    /\ \E c \in pending :
          LET new == {d \in Cells : Adjacent(c, d) /\ amask[d] = 0 /\ h[d] <= level}
          IN  /\ amask' = [d \in Cells |-> IF d \in new THEN 1 ELSE amask[d]]
              /\ pending' = (pending \ {c}) \cup new
    /\ apc' = apc
    /\ UNCHANGED notFlood
    /\ UNCHANGED <<floodParams, mask, queue_x, queue_y, qh, qt, i, fpc, enq, oob, deq,
                   alloc_failed>>

AnyDone ==
    /\ apc = "run"
    /\ pending = {}
    /\ apc' = "done"
    /\ UNCHANGED notFlood
    /\ UNCHANGED <<floodParams, mask, queue_x, queue_y, qh, qt, i, fpc, enq, oob, deq,
                   alloc_failed, amask, pending>>

\* grid sizes main accepts (-x, -y reject values <= 1)
GridSizes == {s \in (2 .. MaxSide) \X (2 .. MaxSide) : s[1] * s[2] <= MaxCells}

\* the arguments main hands to the flood, and the flood's locals before it runs
FloodInputs ==
    /\ \E s \in GridSizes : W = s[1] /\ H = s[2]
    /\ h \in [0 .. (W * H - 1) -> Elevations]
    /\ level \in Levels
    /\ \/ seed_set = 0 /\ sx = 0 /\ sy = 0
       \/ seed_set = 1 /\ \E p \in SeedPoints : sx = p[1] /\ sy = p[2]
    /\ mask = [c \in 0 .. (W * H - 1) |-> 0]
    /\ queue_x = <<>>
    /\ queue_y = <<>>
    /\ qh = 0
    /\ qt = 0
    /\ i = 0
    /\ fpc = "start"
    /\ enq = [c \in 0 .. (W * H - 1) |-> 0]
    /\ oob = FALSE
    /\ deq = {}
    /\ alloc_failed = FALSE
    /\ amask = [c \in 0 .. (W * H - 1) |-> 0]
    /\ pending = {}
    /\ apc = "idle"
    /\ ResampleIdle
    /\ SynthIdle
    /\ BlurIdle
    /\ IsoIdle
    /\ IOIdle
    /\ NormIdle
    /\ SizeIdle
    /\ TriIdle
    /\ ChaosIdle

FloodInit == FloodInputs /\ WaterIdle

FloodNext ==
    \/ FloodStart
    \/ SeedRows
    \/ SeedCols
    \/ SeedPoint
    \/ BfsStep
    \/ FloodReturn
    \/ FloodAbort

Spec == FloodInit /\ [][FloodNext]_vars

\* the flood is straight-line sequential code: it keeps taking its next step
SpecFair == Spec /\ WF_vars(FloodNext)

\* the flood in arbitrary order, then the code's flood on the same grid
\* (square grids, cells at or above the level)
AnyOrderInit == FloodInit /\ W = H /\ level = 0

AnyOrderNext ==
    \/ AnyStart
    \/ AnyStep
    \/ AnyDone
    \/ (apc = "done" /\ FloodNext)

SpecAnyOrder == AnyOrderInit /\ [][AnyOrderNext]_vars

(***************************************************************************)
(* geo main: the water mask under either policy, then the value output     *)
(***************************************************************************)
\* the value output without the water test: v = map[y * GRID_W + x]
printed_value_dry(hh, lv, vww, m, c) == hh[c]

\* double v = map[..]; if (VALUES_WITH_WATER && water[..]) v = WATER_LEVEL;
printed_value(hh, lv, vww, m, c) ==
    IF vww = 1 /\ m[c] # 0 THEN lv ELSE hh[c]

\* WATER_FROM_EDGE: main calls flood_from_edges_or_seed
WaterFlood ==
    /\ wpc = "water"
    /\ WATER_FROM_EDGE = 1
    /\ FloodNext

\* --water-fill-all: main calls mark_all_below
FillAll ==
    /\ wpc = "water"
    /\ WATER_FROM_EDGE = 0
    /\ fpc = "start"
    /\ mask' = mark_all_below(h, level)
    /\ fpc' = "done"
    /\ UNCHANGED notFlood
    /\ UNCHANGED <<floodParams, queue_x, queue_y, qh, qt, i, enq, oob, deq,
                   alloc_failed, anyVars>>

\* the value output loop: one value per cell, row by row
PrintValues ==
    /\ wpc = "water"
    /\ fpc = "done"
    /\ printed' = [c \in 0 .. (W * H - 1) |->
                       printed_value(h, level, VALUES_WITH_WATER, mask, c)]
    /\ wpc' = "printed"
    /\ UNCHANGED notWater
    /\ UNCHANGED <<WATER_FROM_EDGE, VALUES_WITH_WATER>>

WaterInit ==
    /\ FloodInputs
    /\ WATER_FROM_EDGE \in {0, 1}
    /\ VALUES_WITH_WATER \in {0, 1}
    /\ printed = <<>>
    /\ wpc = "water"

WaterNext ==
    \/ WaterFlood
    \/ FillAll
    \/ PrintValues

SpecWater == WaterInit /\ [][WaterNext]_vars


(***************************************************************************)
(* double arithmetic                                                       *)
(***************************************************************************)
DAdd(a, b) == IF a = NaN \/ b = NaN THEN NaN ELSE a + b

\* a * (n / d) for a weight n/d, 0 <= n <= d
DScale(a, n, d) == IF a = NaN THEN NaN ELSE (a * n) \div d

\* a * (1.0 - f) + b * f with f = n / d: the two products, then the sum
DLerp(a, b, n, d) == DAdd(DScale(a, d - n, d), DScale(b, n, d))

\* buf[idx]; an index outside the array, or a cell never written, is an
\* indeterminate load and yields g
Load(buf, idx, g) ==
    IF idx \in DOMAIN buf /\ buf[idx] # Uninit THEN buf[idx] ELSE g

(***************************************************************************)
(* geo.c, plasma.c: resample_bilinear                                      *)
(***************************************************************************)
\* geo's denominator taken as W instead of W - 1
geo_denom_full(n) == n

\* geo: (double)(W - 1), used as it is
geo_denom(n) == n - 1

\* plasma: denomX = (W > 1) ? (double)(W - 1) : 1.0
plasma_denom(n) == IF n > 1 THEN n - 1 ELSE 1

\* x0 = (int)floor(x * (P-1) / denom)
Floor0(x, P, denom) == (x * (P - 1)) \div denom

\* x1 = x0 + 1 without the clamp
Index1_unclamped(x0, P) == x0 + 1

\* x1 = x0 + 1; if (x1 >= P) x1 = P - 1
Index1(x0, P) == IF x0 + 1 >= P THEN P - 1 ELSE x0 + 1

\* fx = u - x0, as the numerator over denom
FracNum(x, P, denom) == (x * (P - 1)) % denom

\* geo.c resample_bilinear: out[y*W+x]
geo_resample_cell(src, P, Wo, Ho, x, y, g) ==
    LET dX == geo_denom(Wo)
        dY == geo_denom(Ho)
        x0 == Floor0(x, P, dX)
        y0 == Floor0(y, P, dY)
        x1 == Index1(x0, P)
        y1 == Index1(y0, P)
        fx == FracNum(x, P, dX)
        fy == FracNum(y, P, dY)
        a == Load(src, y0 * P + x0, g)
        b == Load(src, y0 * P + x1, g)
        c == Load(src, y1 * P + x0, g)
        d == Load(src, y1 * P + x1, g)
        v0 == DLerp(a, b, fx, dX)
        v1 == DLerp(c, d, fx, dX)
    IN  DLerp(v0, v1, fy, dY)

geo_resample_bilinear(src, P, Wo, Ho, g) ==
    [c \in 0 .. (Wo * Ho - 1) |-> geo_resample_cell(src, P, Wo, Ho, c % Wo, c \div Wo, g)]

\* plasma.c get_src: coordinates clamped into the n x n grid
get_src(src, n, x, y, g) ==
    LET xc == IF x < 0 THEN 0 ELSE IF x >= n THEN n - 1 ELSE x
        yc == IF y < 0 THEN 0 ELSE IF y >= n THEN n - 1 ELSE y
    IN  Load(src, yc * n + xc, g)

\* plasma.c resample_bilinear: dst[y*W+x]
plasma_resample_cell(src, n, Wo, Ho, x, y, g) ==
    LET denomX == plasma_denom(Wo)
        denomY == plasma_denom(Ho)
        u0 == Floor0(x, n, denomX)
        v0 == Floor0(y, n, denomY)
        u1 == Index1(u0, n)
        v1 == Index1(v0, n)
        fx == FracNum(x, n, denomX)
        fy == FracNum(y, n, denomY)
        p00 == get_src(src, n, u0, v0, g)
        p10 == get_src(src, n, u1, v0, g)
        p01 == get_src(src, n, u0, v1, g)
        p11 == get_src(src, n, u1, v1, g)
        a == DLerp(p00, p10, fx, denomX)
        b == DLerp(p01, p11, fx, denomX)
    IN  DLerp(a, b, fy, denomY)

plasma_resample_bilinear(src, n, Wo, Ho, g) ==
    [c \in 0 .. (Wo * Ho - 1) |-> plasma_resample_cell(src, n, Wo, Ho, c % Wo, c \div Wo, g)]

\* geo's main calls resample_bilinear(ds, P, map, GRID_W, GRID_H); -x and -y
\* reject values <= 1
GeoResampleCall ==
    /\ rpc = "ready"
    /\ rW >= 2
    /\ rH >= 2
    /\ rP >= 3
    /\ rout' = geo_resample_bilinear(rsrc, rP, rW, rH, rgarbage)
    /\ rpc' = "geo"
    /\ UNCHANGED <<rsrc, rP, rW, rH, rgarbage, notResample>>

\* geo's main, -x N / -y N with N <= 1: usage(argv[0]); return 1 -- the
\* resampler is not called and no grid is produced
GeoUsage ==
    /\ rpc = "ready"
    /\ (rW <= 1 \/ rH <= 1)
    /\ rpc' = "usage"
    /\ UNCHANGED <<rsrc, rP, rW, rH, rout, rgarbage, notResample>>

\* plasma's main calls resample_bilinear(src, n, dst, width, height)
PlasmaResampleCall ==
    /\ rpc = "ready"
    /\ rout' = plasma_resample_bilinear(rsrc, rP, rW, rH, rgarbage)
    /\ rpc' = "plasma"
    /\ UNCHANGED <<rsrc, rP, rW, rH, rgarbage, notResample>>

FloodIdle ==
    /\ W = 2
    /\ H = 2
    /\ h = [c \in 0 .. 3 |-> 0]
    /\ level = 0
    /\ seed_set = 0
    /\ sx = 0
    /\ sy = 0
    /\ mask = [c \in 0 .. 3 |-> 0]
    /\ queue_x = <<>>
    /\ queue_y = <<>>
    /\ qh = 0
    /\ qt = 0
    /\ i = 0
    /\ fpc = "off"
    /\ enq = [c \in 0 .. 3 |-> 0]
    /\ oob = FALSE
    /\ deq = {}
    /\ alloc_failed = FALSE
    /\ amask = [c \in 0 .. 3 |-> 0]
    /\ pending = {}
    /\ apc = "idle"

ResampleInit ==
    /\ FloodIdle
    /\ SynthIdle
    /\ BlurIdle
    /\ IsoIdle
    /\ IOIdle
    /\ WaterIdle
    /\ NormIdle
    /\ SizeIdle
    /\ TriIdle
    /\ ChaosIdle
    /\ rP \in SourceSides
    /\ rsrc \in [0 .. (rP * rP - 1) -> SrcSamples]
    /\ rW \in 1 .. MaxOut
    /\ rH \in 1 .. MaxOut
    /\ rgarbage \in Garbage
    /\ rout = <<>>
    /\ rpc = "ready"

ResampleNext ==
    \/ GeoResampleCall
    \/ GeoUsage
    \/ PlasmaResampleCall

SpecResample == ResampleInit /\ [][ResampleNext]_vars

(***************************************************************************)
(* geo.c: random numbers                                                   *)
(***************************************************************************)
\* rng_nextu: the multiplier and the increment of the generator
LCG_A == 1664525

LCG_C == 1013904223

\* rng_rand01 keeps u & 0xFFFFFF.  The low 24 bits of rng_state * A + C depend
\* on the low 24 bits of rng_state only, whatever the width of unsigned long:
\* the model keeps rng_state modulo 2^24 (= ONE).
\* a * b modulo 2^24 from 12-bit halves, so that no product exceeds 31 bits
MulMod24(a, b) ==
    LET al == a % 4096
        ah == a \div 4096
        bl == b % 4096
        bh == b \div 4096
    IN  (al * bl + ((ah * bl + al * bh) % 4096) * 4096) % ONE

\* rng_srand: if (s == 0) s = 1; rng_state = s
rng_srand(s) == (IF s = 0 THEN 1 ELSE s) % ONE

\* rng_nextu: rng_state = rng_state * 1664525UL + 1013904223UL
rng_nextu(st) == (MulMod24(st, LCG_A) + (LCG_C % ONE)) % ONE

\* rng_rand01: (u & 0xFFFFFF) / 0x1000000, in units of 1/ONE
rng_rand01(u) == u % ONE

\* rng_randm1p1: rng_rand01() * 2.0 - 1.0
rng_randm1p1(u) == rng_rand01(u) * 2 - ONE

(***************************************************************************)
(* geo.c: ds_generate, smooth_box; plasma.c: diamond_square                *)
(***************************************************************************)
\* clamp01d: both comparisons are false for a NaN, which is returned
clamp01d(v) ==
    IF v = NaN THEN NaN
    ELSE IF v < 0 THEN 0
    ELSE IF v > ONE THEN ONE
    ELSE v

\* (a + b + c + d) * 0.25
DQuarter(s) == IF s = NaN THEN NaN ELSE s \div 4

\* sum / (double)cnt
DDiv(s, cnt) == IF s = NaN THEN NaN ELSE s \div cnt

RECURSIVE Pow(_, _)
Pow(b, k) == IF k <= 0 THEN 1 ELSE b * Pow(b, k - 1)

\* (int)(log((double)v) / log(2.0)) for v a power of two
RECURSIVE Log2Int(_)
Log2Int(v) == IF v <= 1 THEN 0 ELSE 1 + Log2Int(v \div 2)

\* main: n = 1; while (((1<<n) + 1) < maxdim) n++;  P = (1<<n) + 1
RECURSIVE GeoN(_, _)
GeoN(n, maxdim) == IF Pow(2, n) + 1 < maxdim THEN GeoN(n + 1, maxdim) ELSE n

GeoSide(w, hgt) == Pow(2, GeoN(1, IF w > hgt THEN w ELSE hgt)) + 1

\* plasma.c pow2plus1_at_least
RECURSIVE ShiftUntil(_, _)
ShiftUntil(sd, target) == IF sd < target THEN ShiftUntil(sd * 2, target) ELSE sd

pow2plus1_at_least(need) == ShiftUntil(1, IF need <= 1 THEN 1 ELSE need - 1) + 1

\* geo: scale = AMP0 * pow(ROUGH, log2(P-1) - log2(step)), as <<num, den>>
GeoScale(amp, rough, P, st) ==
    LET lvl == Log2Int(P - 1) - Log2Int(st)
    IN  <<amp * Pow(rough[1], lvl), Pow(rough[2], lvl)>>

\* r * scale for r in units of 1/ONE
TimesScale(r, sc) == (r * sc[1]) \div sc[2]

\* ds_generate, diamond: the four indices as the code writes them
GeoDiamondA(x, y, half, st, P) == (y - half) * P + (x - half)

GeoDiamondB(x, y, half, st, P) == (y - half) * P + (x + half - st + st - half)

GeoDiamondC(x, y, half, st, P) == (y + half - st + st - half) * P + (x - half)

GeoDiamondD(x, y, half, st, P) ==
    (y + half - st + st - half) * P + (x + half - st + st - half)

\* int xstart = (y/half) % 2 == 0 ? half : 0
XStart(y, half) == IF (y \div half) % 2 = 0 THEN half ELSE 0

\* square pass: sum and count of the neighbours inside the grid
SquareSum(buf, P, x, y, half, g) ==
    LET l == IF x - half >= 0 THEN <<Load(buf, y * P + (x - half), g), 1>> ELSE <<0, 0>>
        r == IF x + half < P THEN <<Load(buf, y * P + (x + half), g), 1>> ELSE <<0, 0>>
        u == IF y - half >= 0 THEN <<Load(buf, (y - half) * P + x, g), 1>> ELSE <<0, 0>>
        d == IF y + half < P THEN <<Load(buf, (y + half) * P + x, g), 1>> ELSE <<0, 0>>
    IN  <<DAdd(DAdd(DAdd(l[1], r[1]), u[1]), d[1]), l[2] + r[2] + u[2] + d[2]>>

\* smooth_box, one pass: mean of the 3x3 window, coordinates clamped to the grid
RECURSIVE SumSeq(_, _)
SumSeq(sq, k) == IF k > Len(sq) THEN 0 ELSE DAdd(sq[k], SumSeq(sq, k + 1))

smooth_box_cell(buf, Wo, Ho, x, y, g) ==
    LET win == [k \in 1 .. 9 |->
                   Load(buf, Clamp(y - 1 + ((k - 1) \div 3), 0, Ho - 1) * Wo
                             + Clamp(x - 1 + ((k - 1) % 3), 0, Wo - 1), g)]
    IN  DDiv(SumSeq(win, 1), 9)

smooth_box_pass(buf, Wo, Ho, g) ==
    [c \in 0 .. (Wo * Ho - 1) |-> smooth_box_cell(buf, Wo, Ho, c % Wo, c \div Wo, g)]

synthParams == <<gen, GRID_W, GRID_H, SEED, AMP0, ROUGH, SMOOTH_PASSES, dsP>>

\* malloc: a buffer of n cells, none written
Fresh(n) == [c \in 0 .. (n - 1) |-> Uninit]

\* after the diamond cell (x,y): the next cell of the pass, or the square pass
AfterDiamond(x, y) ==
    LET half == step \div 2
    IN  IF x + step < dsP
        THEN dsx' = x + step /\ dsy' = y /\ spc' = "diamond"
        ELSE IF y + step < dsP
        THEN dsx' = half /\ dsy' = y + step /\ spc' = "diamond"
        ELSE dsx' = XStart(0, half) /\ dsy' = 0 /\ spc' = "square"

\* ds_generate: the four corners, then the first turn of the step loop begins
GeoCorners ==
    /\ gen = "geo"
    /\ spc = "corners"
    /\ LET u1 == rng_nextu(rng_state)
           u2 == rng_nextu(u1)
           u3 == rng_nextu(u2)
           u4 == rng_nextu(u3)
       IN  /\ ds' = [ds EXCEPT ![0] = rng_rand01(u1),
                                ![dsP - 1] = rng_rand01(u2),
                                ![(dsP - 1) * dsP] = rng_rand01(u3),
                                ![(dsP - 1) * dsP + (dsP - 1)] = rng_rand01(u4)]
           /\ rng_state' = u4
    /\ step' = dsP - 1
    /\ scale' = GeoScale(AMP0, ROUGH, dsP, dsP - 1)
    /\ dsx' = (dsP - 1) \div 2
    /\ dsy' = (dsP - 1) \div 2
    /\ spc' = "diamond"
    /\ UNCHANGED notSynth
    /\ UNCHANGED <<synthParams, heap, map, pass, run, first, last>>

\* ds_generate, diamond pass, one cell.  A cell read before it was ever
\* written holds whatever the malloc'ed memory held (heap).
GeoDiamond ==
    /\ gen = "geo"
    /\ spc = "diamond"
    /\ LET half == step \div 2
           u == rng_nextu(rng_state)
           off == TimesScale(rng_randm1p1(u), scale)
           a == Load(ds, GeoDiamondA(dsx, dsy, half, step, dsP), heap)
           b == Load(ds, GeoDiamondB(dsx, dsy, half, step, dsP), heap)
           c == Load(ds, GeoDiamondC(dsx, dsy, half, step, dsP), heap)
           d == Load(ds, GeoDiamondD(dsx, dsy, half, step, dsP), heap)
           avg == DQuarter(DAdd(DAdd(DAdd(a, b), c), d))
       IN  /\ ds' = [ds EXCEPT ![dsy * dsP + dsx] = clamp01d(DAdd(avg, off))]
           /\ rng_state' = u
           /\ last' = [kind |-> "diamond", x |-> dsx, y |-> dsy, half |-> half,
                       off |-> off]
    /\ AfterDiamond(dsx, dsy)
    /\ UNCHANGED notSynth
    /\ UNCHANGED <<synthParams, heap, scale, step, map, pass, run, first>>

\* ds_generate, square pass, one cell; after the last cell the step is halved
GeoSquare ==
    /\ gen = "geo"
    /\ spc = "square"
    /\ LET half == step \div 2
           u == rng_nextu(rng_state)
           off == TimesScale(rng_randm1p1(u), scale)
           sc == SquareSum(ds, dsP, dsx, dsy, half, heap)
       IN  /\ IF sc[2] > 0
              THEN /\ ds' = [ds EXCEPT ![dsy * dsP + dsx] =
                                 clamp01d(DAdd(DDiv(sc[1], sc[2]), off))]
                   /\ rng_state' = u
              ELSE UNCHANGED <<ds, rng_state>>
           /\ last' = [kind |-> "square", x |-> dsx, y |-> dsy, half |-> half,
                       off |-> off]
           /\ IF dsx + step < dsP
              THEN dsx' = dsx + step /\ dsy' = dsy /\ UNCHANGED <<step, scale, spc>>
              ELSE IF dsy + half < dsP
              THEN /\ dsx' = XStart(dsy + half, half)
                   /\ dsy' = dsy + half
                   /\ UNCHANGED <<step, scale, spc>>
              ELSE /\ step' = half
                   /\ scale' = IF half > 1 THEN GeoScale(AMP0, ROUGH, dsP, half) ELSE scale
                   /\ dsx' = half \div 2
                   /\ dsy' = half \div 2
                   /\ spc' = IF half > 1 THEN "diamond" ELSE "resample"
    /\ UNCHANGED notSynth
    /\ UNCHANGED <<synthParams, heap, map, pass, run, first>>

\* main: resample_bilinear(ds, P, map, GRID_W, GRID_H)
GeoResample ==
    /\ gen = "geo"
    /\ spc = "resample"
    /\ map' = geo_resample_bilinear(ds, dsP, GRID_W, GRID_H, heap)
    /\ pass' = 0
    /\ spc' = IF SMOOTH_PASSES > 0 THEN "smooth" ELSE "done"
    /\ UNCHANGED notSynth
    /\ UNCHANGED <<synthParams, heap, ds, rng_state, scale, step, dsx, dsy, run, first, last>>

\* smooth_box: one pass of for (p = 0; p < passes; ++p)
GeoSmooth ==
    /\ gen = "geo"
    /\ spc = "smooth"
    /\ map' = smooth_box_pass(map, GRID_W, GRID_H, heap)
    /\ pass' = pass + 1
    /\ spc' = IF pass + 1 < SMOOTH_PASSES THEN "smooth" ELSE "done"
    /\ UNCHANGED notSynth
    /\ UNCHANGED <<synthParams, heap, ds, rng_state, scale, step, dsx, dsy, run, first, last>>

\* geo is run a second time with the same arguments: new buffers, rng_srand(SEED)
GeoRerun ==
    /\ gen = "geo"
    /\ spc = "done"
    /\ run = 1
    /\ run' = 2
    /\ first' = [ds |-> ds, map |-> map]
    /\ ds' = Fresh(dsP * dsP)
    /\ heap' \in Garbage
    /\ map' = Fresh(GRID_W * GRID_H)
    /\ rng_state' = rng_srand(SEED)
    /\ scale' = <<1, 1>>
    /\ step' = 0
    /\ dsx' = 0
    /\ dsy' = 0
    /\ pass' = 0
    /\ last' = NoWrite
    /\ spc' = "corners"
    /\ UNCHANGED notSynth
    /\ UNCHANGED synthParams

\* plasma.c frand_symmetric(amp): (frand01() * 2.0 - 1.0) * amp, for the value
\* r of rand() / RAND_MAX
frand_symmetric(r, sc) == TimesScale(r * 2 - ONE, sc)

\* diamond_square: the four corners
PlasmaCorners ==
    /\ gen = "plasma"
    /\ spc = "corners"
    /\ \E r1, r2, r3, r4 \in RandSamples :
          ds' = [ds EXCEPT ![0] = frand_symmetric(r1, scale),
                           ![dsP - 1] = frand_symmetric(r2, scale),
                           ![(dsP - 1) * dsP] = frand_symmetric(r3, scale),
                           ![(dsP - 1) * dsP + (dsP - 1)] = frand_symmetric(r4, scale)]
    /\ step' = dsP - 1
    /\ dsx' = (dsP - 1) \div 2
    /\ dsy' = (dsP - 1) \div 2
    /\ spc' = IF dsP - 1 > 1 THEN "diamond" ELSE "done"
    /\ UNCHANGED notSynth
    /\ UNCHANGED <<synthParams, heap, rng_state, scale, map, pass, run, first, last>>

\* diamond_square, diamond pass, one cell
PlasmaDiamond ==
    /\ gen = "plasma"
    /\ spc = "diamond"
    /\ LET half == step \div 2
       IN  \E r \in RandSamples :
              LET a == get_src(ds, dsP, dsx - half, dsy - half, heap)
                  b == get_src(ds, dsP, dsx + half, dsy - half, heap)
                  c == get_src(ds, dsP, dsx - half, dsy + half, heap)
                  d == get_src(ds, dsP, dsx + half, dsy + half, heap)
                  avg == DQuarter(DAdd(DAdd(DAdd(a, b), c), d))
                  off == frand_symmetric(r, scale)
              IN  /\ ds' = [ds EXCEPT ![dsy * dsP + dsx] = DAdd(avg, off)]
                  /\ last' = [kind |-> "diamond", x |-> dsx, y |-> dsy,
                              half |-> half, off |-> off]
    /\ AfterDiamond(dsx, dsy)
    /\ UNCHANGED notSynth
    /\ UNCHANGED <<synthParams, heap, rng_state, scale, step, map, pass, run, first>>

\* diamond_square, square pass, one cell; after the last cell step = half and
\* scale *= decay
PlasmaSquare ==
    /\ gen = "plasma"
    /\ spc = "square"
    /\ LET half == step \div 2
       IN  /\ \E r \in RandSamples :
                 LET u == IF dsy - half >= 0 THEN <<get_src(ds, dsP, dsx, dsy - half, heap), 1>> ELSE <<0, 0>>
                     d == IF dsy + half < dsP THEN <<get_src(ds, dsP, dsx, dsy + half, heap), 1>> ELSE <<0, 0>>
                     l == IF dsx - half >= 0 THEN <<get_src(ds, dsP, dsx - half, dsy, heap), 1>> ELSE <<0, 0>>
                     rr == IF dsx + half < dsP THEN <<get_src(ds, dsP, dsx + half, dsy, heap), 1>> ELSE <<0, 0>>
                     sum == DAdd(DAdd(DAdd(u[1], d[1]), l[1]), rr[1])
                     cnt == u[2] + d[2] + l[2] + rr[2]
                     off == frand_symmetric(r, scale)
                 IN  /\ ds' = [ds EXCEPT ![dsy * dsP + dsx] =
                                   IF cnt > 0 THEN DAdd(DDiv(sum, cnt), off) ELSE off]
                     /\ last' = [kind |-> "square", x |-> dsx, y |-> dsy,
                                 half |-> half, off |-> off]
           /\ IF dsx + step < dsP
              THEN dsx' = dsx + step /\ dsy' = dsy /\ UNCHANGED <<step, scale, spc>>
              ELSE IF dsy + half < dsP
              THEN /\ dsx' = XStart(dsy + half, half)
                   /\ dsy' = dsy + half
                   /\ UNCHANGED <<step, scale, spc>>
              ELSE /\ step' = half
                   /\ scale' = <<scale[1] * ROUGH[1], scale[2] * ROUGH[2]>>
                   /\ dsx' = half \div 2
                   /\ dsy' = half \div 2
                   /\ spc' = IF half > 1 THEN "diamond" ELSE "done"
    /\ UNCHANGED notSynth
    /\ UNCHANGED <<synthParams, heap, rng_state, map, pass, run, first>>

\* geo's main up to rng_srand(SEED): arguments parsed, P chosen, ds and map
\* allocated.  plasma's main up to the call of diamond_square(src, n, AMP, DECAY).
SynthInit ==
    /\ FloodIdle
    /\ ResampleIdle
    /\ BlurIdle
    /\ IsoIdle
    /\ IOIdle
    /\ WaterIdle
    /\ NormIdle
    /\ SizeIdle
    /\ TriIdle
    /\ ChaosIdle
    /\ gen \in {"geo", "plasma"}
    /\ AMP0 \in Amplitudes
    /\ ROUGH \in Roughnesses
    /\ IF gen = "geo"
       THEN /\ GRID_W \in 2 .. MaxDim
            /\ GRID_H \in 2 .. MaxDim
            /\ SEED \in Seeds
            /\ SMOOTH_PASSES \in 0 .. MaxPasses
            /\ dsP = GeoSide(GRID_W, GRID_H)
       ELSE /\ GRID_W \in PlasmaDims
            /\ GRID_H \in PlasmaDims
            /\ SEED = 0
            /\ SMOOTH_PASSES = 0
            /\ dsP = pow2plus1_at_least(IF GRID_W > GRID_H THEN GRID_W ELSE GRID_H)
    /\ ds = Fresh(dsP * dsP)
    /\ heap \in Garbage
    /\ map = Fresh(GRID_W * GRID_H)
    /\ rng_state = rng_srand(SEED)
    /\ scale = <<AMP0, 1>>
    /\ step = 0
    /\ dsx = 0
    /\ dsy = 0
    /\ spc = "corners"
    /\ pass = 0
    /\ run = 1
    /\ first = <<>>
    /\ last = NoWrite

SynthNext ==
    \/ GeoCorners
    \/ GeoDiamond
    \/ GeoSquare
    \/ GeoResample
    \/ GeoSmooth
    \/ GeoRerun
    \/ PlasmaCorners
    \/ PlasmaDiamond
    \/ PlasmaSquare

SpecSynth == SynthInit /\ [][SynthNext]_vars

(***************************************************************************)
(* geo.c smooth_box, plasma.c box_blur                                     *)
(***************************************************************************)
\* a % b as C computes it for b > 0: the sign of the result is the sign of a
CRem(a, b) == IF a >= 0 THEN a % b ELSE 0 - ((0 - a) % b)

\* sum / (double)cnt; an empty window gives 0.0 / 0.0
BlurMean(sum, cnt) == IF cnt = 0 THEN NaN ELSE DDiv(sum, cnt)

\* for (dy = -r; dy <= r; ++dy): the number of turns of the loop
WindowSide(r) == IF r >= 0 THEN 2 * r + 1 ELSE 0

\* box_blur: one cell of one pass, coordinates clamped to the grid
box_blur_cell(src, Wo, Ho, r, x, y, g) ==
    LET n == WindowSide(r)
        win == [k \in 1 .. (n * n) |->
                   Load(src, Clamp(y - r + ((k - 1) \div n), 0, Ho - 1) * Wo
                             + Clamp(x - r + ((k - 1) % n), 0, Wo - 1), g)]
    IN  BlurMean(SumSeq(win, 1), n * n)

box_blur_pass(src, Wo, Ho, r, g) ==
    [c \in 0 .. (Wo * Ho - 1) |-> box_blur_cell(src, Wo, Ho, r, c % Wo, c \div Wo, g)]

\* box_blur: the passes, alternating between grid and tmp; <<grid, tmp>>
RECURSIVE BlurPasses(_, _, _, _, _, _, _, _)
BlurPasses(grid, tmp, Wo, Ho, r, ps, p, g) ==
    IF ps < p
    THEN IF CRem(ps, 2) = 0
         THEN BlurPasses(grid, box_blur_pass(grid, Wo, Ho, r, g), Wo, Ho, r, ps + 1, p, g)
         ELSE BlurPasses(box_blur_pass(tmp, Wo, Ho, r, g), tmp, Wo, Ho, r, ps + 1, p, g)
    ELSE <<grid, tmp>>

\* box_blur from the malloc of tmp on: the passes, then the copy of tmp into
\* grid when p is odd
BlurBody(grid, Wo, Ho, r, p, ok, g) ==
    IF ~ok THEN grid
    ELSE LET gt == BlurPasses(grid, Fresh(Wo * Ho), Wo, Ho, r, 0, p, g)
         IN  IF CRem(p, 2) = 1 THEN gt[2] ELSE gt[1]

\* box_blur without its first line
box_blur_unguarded(grid, Wo, Ho, r, p, ok, g) == BlurBody(grid, Wo, Ho, r, p, ok, g)

\* box_blur(grid, W, H, r, p): the grid afterwards; ok: malloc returned memory
box_blur(grid, Wo, Ho, r, p, ok, g) ==
    IF r <= 0 \/ p <= 0 THEN grid ELSE BlurBody(grid, Wo, Ho, r, p, ok, g)

\* smooth_box: the loop over the passes; the malloc of pass number failAt
\* returns NULL and the function returns with the passes done so far
RECURSIVE SmoothPasses(_, _, _, _, _, _, _)
SmoothPasses(buf, Wo, Ho, p, passes, failAt, g) ==
    IF p < passes /\ p # failAt
    THEN SmoothPasses(smooth_box_pass(buf, Wo, Ho, g), Wo, Ho, p + 1, passes, failAt, g)
    ELSE buf

\* smooth_box(buf, W, H, passes): the grid afterwards
smooth_box(buf, Wo, Ho, passes, failAt, g) ==
    IF passes <= 0 THEN buf ELSE SmoothPasses(buf, Wo, Ho, 0, passes, failAt, g)

\* plasma.c: box_blur applied to a grid
BoxBlurCall ==
    /\ bpc = "ready"
    /\ \E ok \in BOOLEAN, g \in Garbage :
          /\ bout' = box_blur(bgrid, bW, bH, br, bp, ok, g)
          /\ tmp_failed' = (br > 0 /\ bp > 0 /\ ~ok)
    /\ bpc' = "box_blur"
    /\ UNCHANGED <<bgrid, bW, bH, br, bp, bexit, bmsg, bprinted, notBlur>>

\* geo.c: smooth_box applied to a grid, with passes = bp
SmoothBoxCall ==
    /\ bpc = "ready"
    /\ \E failAt \in 0 .. (MaxBlurPasses + 1), g \in Garbage :
          /\ bout' = smooth_box(bgrid, bW, bH, bp, failAt, g)
          /\ tmp_failed' = (failAt < bp)
    /\ bpc' = "smooth_box"
    /\ UNCHANGED <<bgrid, bW, bH, br, bp, bexit, bmsg, bprinted, notBlur>>

\* main after box_blur / smooth_box returned (both return void): the grid
\* is printed and main returns 0
MainAfterSmoothing ==
    /\ bpc \in {"box_blur", "smooth_box"}
    /\ bprinted' = TRUE
    /\ bexit' = 0
    /\ bpc' = "exited"
    /\ UNCHANGED <<bgrid, bW, bH, br, bp, bout, tmp_failed, bmsg, notBlur>>

BlurInit ==
    /\ FloodIdle
    /\ ResampleIdle
    /\ SynthIdle
    /\ IsoIdle
    /\ IOIdle
    /\ WaterIdle
    /\ NormIdle
    /\ SizeIdle
    /\ TriIdle
    /\ ChaosIdle
    /\ bW \in 1 .. MaxBlurSide
    /\ bH \in 1 .. MaxBlurSide
    /\ bgrid \in [0 .. (bW * bH - 1) -> BlurSamples]
    /\ br \in (0 - 1) .. MaxRadius
    /\ bp \in (0 - 1) .. MaxBlurPasses
    /\ bout = <<>>
    /\ tmp_failed = FALSE
    /\ bpc = "ready"
    /\ bexit = 0 - 1
    /\ bmsg = FALSE
    /\ bprinted = FALSE

BlurNext ==
    \/ BoxBlurCall
    \/ SmoothBoxCall
    \/ MainAfterSmoothing

SpecBlur == BlurInit /\ [][BlurNext]_vars

(***************************************************************************)
(* iso.c: projection and painter's loop                                    *)
(***************************************************************************)
\* (int)(h * (double)n + 0.5) for an elevation h counted in 1/HDen, h >= 0
RoundScaled(hv, n) == (2 * hv * n + HDen) \div (2 * HDen)

clamp8(v) == IF v < 0 THEN 0 ELSE IF v > 255 THEN 255 ELSE v

\* FB_W, FB_H with MARGIN = TILE_W
FB_W == (iso_W + iso_H) * (TILE_W \div 2) + TILE_W * 2 + TILE_W

FB_H == (iso_W + iso_H) * (TILE_H \div 2) + ZS + TILE_W * 2 + TILE_H

off_x == TILE_W + iso_H * (TILE_W \div 2)

off_y == TILE_W + ZS

\* the points of the column of the cell (gx,gy): the top rhombus at the
\* raised level and the three points of the base
IsoVertices(gx, gy) ==
    LET z == RoundScaled(hmap[gy * iso_W + gx], ZS)
        scx == off_x + (gx - gy) * (TILE_W \div 2)
        scy == off_y + (gx + gy) * (TILE_H \div 2)
        cy == scy - z
    IN  [top     |-> <<scx, cy - (TILE_H \div 2)>>,
         left    |-> <<scx - (TILE_W \div 2), cy>>,
         right   |-> <<scx + (TILE_W \div 2), cy>>,
         bot     |-> <<scx, cy + (TILE_H \div 2)>>,
         b_left  |-> <<scx - (TILE_W \div 2), scy>>,
         b_right |-> <<scx + (TILE_W \div 2), scy>>,
         b_bot   |-> <<scx, scy + (TILE_H \div 2)>>]

\* g_top, g_left, g_right of a cell of elevation hv
g_top(hv) == clamp8(RoundScaled(hv, 255))

\* the left face brighter than the top: 120 / 100
g_left_bright(hv) == clamp8((g_top(hv) * 120) \div 100)

g_left(hv) == clamp8((g_top(hv) * 80) \div 100)

g_right(hv) == clamp8((g_top(hv) * 60) \div 100)

Min3(a, b, c) == IF a <= b /\ a <= c THEN a ELSE IF b <= c THEN b ELSE c

Max3(a, b, c) == IF a >= b /\ a >= c THEN a ELSE IF b >= c THEN b ELSE c

\* fill_tri: is the pixel (x,y) stored?  Inside the bounding box clipped to
\* the framebuffer, and the three edge functions of the same sign
InTri(x, y, p0, p1, p2, FW, FH) ==
    LET minx == IF Min3(p0[1], p1[1], p2[1]) < 0 THEN 0 ELSE Min3(p0[1], p1[1], p2[1])
        miny == IF Min3(p0[2], p1[2], p2[2]) < 0 THEN 0 ELSE Min3(p0[2], p1[2], p2[2])
        maxx == IF Max3(p0[1], p1[1], p2[1]) >= FW THEN FW - 1 ELSE Max3(p0[1], p1[1], p2[1])
        maxy == IF Max3(p0[2], p1[2], p2[2]) >= FH THEN FH - 1 ELSE Max3(p0[2], p1[2], p2[2])
        A01 == p0[2] - p1[2]
        B01 == p1[1] - p0[1]
        A12 == p1[2] - p2[2]
        B12 == p2[1] - p1[1]
        A20 == p2[2] - p0[2]
        B20 == p0[1] - p2[1]
        w0 == (x - p1[1]) * A12 + (y - p1[2]) * B12
        w1 == (x - p2[1]) * A20 + (y - p2[2]) * B20
        w2 == (x - p0[1]) * A01 + (y - p0[2]) * B01
    IN  /\ minx <= x /\ x <= maxx
        /\ miny <= y /\ y <= maxy
        /\ \/ (w0 >= 0 /\ w1 >= 0 /\ w2 >= 0)
           \/ (w0 <= 0 /\ w1 <= 0 /\ w2 <= 0)

\* fill_tri with the grey v: put_px stores clamp8(v) in the three channels
fill_tri(fbuf, FW, FH, p0, p1, p2, v) ==
    [k \in DOMAIN fbuf |->
        IF InTri(k % FW, k \div FW, p0, p1, p2, FW, FH)
        THEN <<clamp8(v), clamp8(v), clamp8(v)>>
        ELSE fbuf[k]]

\* fill_quad: the triangles (0,1,2) and (0,2,3)
fill_quad(fbuf, FW, FH, p0, p1, p2, p3, v) ==
    fill_tri(fill_tri(fbuf, FW, FH, p0, p1, p2, v), FW, FH, p0, p2, p3, v)

\* the faces of one cell, top before the sides
CellFaces_top_first(gx, gy) ==
    << <<gx, gy, "top_a">>, <<gx, gy, "top_b">>, <<gx, gy, "left">>, <<gx, gy, "right">> >>

\* the faces of one cell in the order the code fills them
CellFaces(gx, gy) ==
    << <<gx, gy, "left">>, <<gx, gy, "right">>, <<gx, gy, "top_a">>, <<gx, gy, "top_b">> >>

\* the framebuffer after the four fills of the cell (gx,gy)
PaintCell(fbuf, gx, gy) ==
    LET v == IsoVertices(gx, gy)
        hv == hmap[gy * iso_W + gx]
        f1 == fill_quad(fbuf, FB_W, FB_H, v.left, v.b_left, v.b_bot, v.bot, g_left(hv))
        f2 == fill_quad(f1, FB_W, FB_H, v.right, v.bot, v.b_bot, v.b_right, g_right(hv))
        f3 == fill_tri(f2, FB_W, FB_H, v.top, v.left, v.right, g_top(hv))
    IN  fill_tri(f3, FB_W, FB_H, v.bot, v.right, v.left, g_top(hv))

\* one turn of for (x = 0; x < GRID_W; ++x) inside for (s = 0; ...): the cell
\* (x, s - x) is painted, or skipped when s - x is not a row of the grid
IsoPaintStep ==
    /\ ipc = "paint"
    /\ LET gy == iso_s - iso_x
       IN  IF gy < 0 \/ gy >= iso_H
           THEN UNCHANGED <<fb, painted>>
           ELSE /\ fb' = PaintCell(fb, iso_x, gy)
                /\ painted' = painted \o CellFaces(iso_x, gy)
    /\ IF iso_x + 1 < iso_W
       THEN iso_x' = iso_x + 1 /\ UNCHANGED <<iso_s, ipc>>
       ELSE /\ iso_x' = 0
            /\ iso_s' = iso_s + 1
            /\ ipc' = IF iso_s + 1 <= (iso_W - 1) + (iso_H - 1) THEN "paint" ELSE "painted"
    /\ UNCHANGED <<iso_W, iso_H, TILE_W, TILE_H, ZS, BG, hmap, notIso>>

\* iso's main after the elevations were read and clamped to [0,1]: the
\* framebuffer is allocated and filled with the background colour
IsoInit ==
    /\ FloodIdle
    /\ ResampleIdle
    /\ SynthIdle
    /\ BlurIdle
    /\ IOIdle
    /\ WaterIdle
    /\ NormIdle
    /\ SizeIdle
    /\ TriIdle
    /\ ChaosIdle
    /\ iso_W \in IsoSides
    /\ iso_H \in IsoSides
    /\ TILE_W \in TileWidths
    /\ TILE_H \in TileHeights
    /\ ZS \in VerticalScales
    /\ BG = <<16, 16, 24>>
    /\ \/ hmap \in [0 .. (iso_W * iso_H - 1) -> IsoHeights]
       \/ \E hv \in FlatHeights : hmap = [c \in 0 .. (iso_W * iso_H - 1) |-> hv]
    /\ fb = [k \in 0 .. (FB_W * FB_H - 1) |-> BG]
    /\ painted = <<>>
    /\ iso_s = 0
    /\ iso_x = 0
    /\ ipc = "paint"

IsoNext == IsoPaintStep

SpecIso == IsoInit /\ [][IsoNext]_vars

(***************************************************************************)
(* iso.c and geo.c: reading the elevations, write_ppm, exit status         *)
(***************************************************************************)
Absent == [state |-> "absent", bytes |-> 0]

\* a complete image left at the output path by an earlier run
OldImage == [state |-> "old", bytes |-> 0]

\* fscanf(f, "%lf", &v) == 1 at the k-th token of the input
ScanOk_lenient(tokens, k) == TRUE

ScanOk(tokens, k) == k <= Len(tokens) /\ tokens[k] = "num"

\* return 1 after a message on stderr
ExitFailure ==
    /\ exit_status' = 1
    /\ errmsg' = TRUE
    /\ iopc' = "exited"

\* iso main: grid = malloc(...); f = fopen(IN_PATH, "r") or stdin
IsoStart ==
    /\ prog = "iso"
    /\ iopc = "start"
    /\ \E grid_ok, open_ok \in BOOLEAN :
          IF grid_ok /\ open_ok
          THEN iopc' = "read" /\ UNCHANGED <<exit_status, errmsg>>
          ELSE ExitFailure
    /\ UNCHANGED <<prog, in_tokens, ncells, nread, out_before, out_file, want, notIO>>

\* iso main: one turn of the reading loops; after the last cell the input is
\* closed, whatever follows in it
IsoReadCell ==
    /\ prog = "iso"
    /\ iopc = "read"
    /\ IF ScanOk(in_tokens, nread + 1)
       THEN /\ nread' = nread + 1
            /\ iopc' = IF nread + 1 < ncells THEN "read" ELSE "alloc"
            /\ UNCHANGED <<exit_status, errmsg>>
       ELSE /\ ExitFailure
            /\ UNCHANGED nread
    /\ UNCHANGED <<prog, in_tokens, ncells, out_before, out_file, want, notIO>>

\* iso main: fb = malloc(FB_W * FB_H * 3), then the image is painted
IsoAllocFb ==
    /\ prog = "iso"
    /\ iopc = "alloc"
    /\ \E fb_ok \in BOOLEAN :
          IF fb_ok
          THEN iopc' = "open" /\ UNCHANGED <<exit_status, errmsg>>
          ELSE ExitFailure
    /\ UNCHANGED <<prog, in_tokens, ncells, nread, out_before, out_file, want, notIO>>

\* geo main with -o: rgb = malloc(...), then the colours are computed
GeoAllocRgb ==
    /\ prog = "geo"
    /\ iopc = "start"
    /\ \E rgb_ok \in BOOLEAN :
          IF rgb_ok
          THEN iopc' = "open" /\ UNCHANGED <<exit_status, errmsg>>
          ELSE ExitFailure
    /\ UNCHANGED <<prog, in_tokens, ncells, nread, out_before, out_file, want, notIO>>

\* write_ppm: fopen(path, "wb") creates or truncates the file, then the header
\* is printed; when fopen fails write_ppm returns -1 and main returns 1
WriteOpen ==
    /\ iopc = "open"
    /\ \E open_ok \in BOOLEAN :
          IF open_ok
          THEN /\ out_file' = [state |-> "header", bytes |-> 0]
               /\ iopc' = "write"
               /\ UNCHANGED <<exit_status, errmsg>>
          ELSE /\ ExitFailure
               /\ UNCHANGED out_file
    /\ UNCHANGED <<prog, in_tokens, ncells, nread, out_before, want, notIO>>

\* iso write_ppm: wrote = fwrite(rgb, 1, want, f); a short count is an error:
\* fclose(f); return -1, and main returns 1
IsoWriteAll ==
    /\ prog = "iso"
    /\ iopc = "write"
    /\ \E wrote \in 0 .. want :
          /\ out_file' = [out_file EXCEPT !.bytes = wrote]
          /\ IF wrote # want
             THEN ExitFailure
             ELSE iopc' = "close" /\ UNCHANGED <<exit_status, errmsg>>
    /\ UNCHANGED <<prog, in_tokens, ncells, nread, out_before, want, notIO>>

\* geo write_ppm: one pixel, wrote = fwrite(px, 1, 3, f); a short count is an
\* error: fclose(f); return -1, and main returns 1
GeoWritePixel ==
    /\ prog = "geo"
    /\ iopc = "write"
    /\ \E wrote \in 0 .. 3 :
          /\ out_file' = [out_file EXCEPT !.bytes = @ + wrote]
          /\ IF wrote # 3
             THEN ExitFailure
             ELSE /\ iopc' = IF out_file.bytes + 3 < want THEN "write" ELSE "close"
                  /\ UNCHANGED <<exit_status, errmsg>>
    /\ UNCHANGED <<prog, in_tokens, ncells, nread, out_before, want, notIO>>

\* write_ppm: fclose(f); return 0, and main returns 0
WriteClose ==
    /\ iopc = "close"
    /\ exit_status' = 0
    /\ iopc' = "exited"
    /\ UNCHANGED <<prog, in_tokens, ncells, nread, out_before, out_file, want, errmsg, notIO>>

\* the texts given to iso: up to MaxTokens tokens, numbers or not
Inputs == UNION {[1 .. n -> {"num", "bad"}] : n \in 0 .. MaxTokens}

IOInit ==
    /\ FloodIdle
    /\ ResampleIdle
    /\ SynthIdle
    /\ BlurIdle
    /\ IsoIdle
    /\ WaterIdle
    /\ NormIdle
    /\ SizeIdle
    /\ TriIdle
    /\ ChaosIdle
    /\ prog \in {"iso", "geo"}
    /\ IF prog = "iso"
       THEN ncells \in 1 .. MaxInCells /\ in_tokens \in Inputs
       ELSE ncells = 0 /\ in_tokens = <<>>
    /\ nread = 0
    /\ out_before \in {Absent, OldImage}
    /\ out_file = out_before
    /\ want \in {3 * n : n \in 1 .. MaxPixels}
    /\ exit_status = 0 - 1
    /\ errmsg = FALSE
    /\ iopc = "start"

IONext ==
    \/ IsoStart
    \/ IsoReadCell
    \/ IsoAllocFb
    \/ GeoAllocRgb
    \/ WriteOpen
    \/ IsoWriteAll
    \/ GeoWritePixel
    \/ WriteClose

SpecIO == IOInit /\ [][IONext]_vars

(***************************************************************************)
(* plasma.c: normalize01                                                   *)
(***************************************************************************)
\* the largest finite double on the model's scale, and the result of an
\* operation whose exact value is larger
DBL_MAX == 32 * ONE

Inf == 110 * ONE

\* values of the cells handed to normalize01: the extremes of the type, zero,
\* the smallest step and 1.0
NormSamples == {0 - DBL_MAX, 0, 1, ONE, DBL_MAX}

\* a - b for finite a >= b; a difference above the range rounds to infinity
DSub(a, b) == IF a - b > DBL_MAX THEN Inf ELSE a - b

\* the fraction num / den, 0 <= num < den, to k binary places
RECURSIVE FracBits(_, _, _)
FracBits(num, den, k) ==
    IF k = 0 THEN 0
    ELSE IF 2 * num >= den
         THEN Pow(2, k - 1) + FracBits(2 * num - den, den, k - 1)
         ELSE FracBits(2 * num, den, k - 1)

\* a / b for 0 <= a <= b, b > 0: inf / inf is NaN, finite / inf is 0
DQuot(a, b) ==
    IF a = Inf /\ b = Inf THEN NaN
    ELSE IF b = Inf THEN 0
    ELSE IF a = Inf THEN Inf
    ELSE IF a = b THEN ONE
    ELSE FracBits(a, b, 24)

\* the scan of normalize01 for mn and mx, from grid[0]
RECURSIVE ScanMin(_, _, _)
ScanMin(g, k, mn) ==
    IF k > Len(g) THEN mn
    ELSE ScanMin(g, k + 1, IF g[k] < mn THEN g[k] ELSE mn)

RECURSIVE ScanMax(_, _, _)
ScanMax(g, k, mx) ==
    IF k > Len(g) THEN mx
    ELSE ScanMax(g, k + 1, IF g[k] > mx THEN g[k] ELSE mx)

\* mx - mn <= 1e-12: below the model's step only a zero difference is
TinyRange(d) == d # Inf /\ d <= 0

\* normalize01: 0.5 everywhere if mx - mn <= 1e-12, else (v - mn) / (mx - mn)
normalize01(g) ==
    LET mn == ScanMin(g, 2, g[1])
        mx == ScanMax(g, 2, g[1])
    IN  IF TinyRange(DSub(mx, mn))
        THEN [k \in 1 .. Len(g) |-> ONE \div 2]
        ELSE [k \in 1 .. Len(g) |-> DQuot(DSub(g[k], mn), DSub(mx, mn))]

\* main: normalize01(dst, width * height)
NormalizeCall ==
    /\ npc = "start"
    /\ nout' = normalize01(ngrid)
    /\ npc' = "done"
    /\ UNCHANGED notNorm
    /\ UNCHANGED ngrid

\* main: print_values after the normalisation
NormalizePrinted ==
    /\ npc = "done"
    /\ npc' = "printed"
    /\ UNCHANGED notNorm
    /\ UNCHANGED <<ngrid, nout>>

NormInit ==
    /\ \E n \in 1 .. MaxNorm : ngrid \in [1 .. n -> NormSamples]
    /\ nout = <<>>
    /\ npc = "start"
    /\ FloodIdle
    /\ ResampleIdle
    /\ SynthIdle
    /\ BlurIdle
    /\ IsoIdle
    /\ IOIdle
    /\ WaterIdle
    /\ SizeIdle
    /\ TriIdle
    /\ ChaosIdle

NormNext ==
    \/ NormalizeCall
    \/ NormalizePrinted

SpecNorm == NormInit /\ [][NormNext]_vars

(***************************************************************************)
(* plasma.c main: size check and allocation of the two grids               *)
(***************************************************************************)
\* #define MAX_CELLS 2000000L
MAX_CELLS == 2000000

\* widths and heights tried (-x and -y reject values <= 0)
SizeSamples == {1, 2, 3, 20, 1000, 1024, 1025, 2000, 2001}

\* total = (long)width * (long)height; total <= 0 || total > MAX_CELLS: exit 1
SizeCheck ==
    /\ szpc = "start"
    /\ szpc' = IF width * height <= 0 \/ width * height > MAX_CELLS
               THEN "rejected"
               ELSE "sized"
    /\ UNCHANGED notSize
    /\ UNCHANGED <<width, height, src_cells, dst_cells>>

\* n = pow2plus1_at_least(max(width, height)); malloc of n * n doubles for
\* src and of width * height doubles for dst; either malloc may fail
AllocGrids ==
    /\ szpc = "sized"
    /\ LET need == IF width > height THEN width ELSE height
           n == pow2plus1_at_least(need)
       IN  /\ src_cells' = n * n
           /\ dst_cells' = width * height
    /\ szpc' \in {"allocated", "nomem"}
    /\ UNCHANGED notSize
    /\ UNCHANGED <<width, height>>

SizeInit ==
    /\ width \in SizeSamples
    /\ height \in SizeSamples
    /\ src_cells = 0
    /\ dst_cells = 0
    /\ szpc = "start"
    /\ FloodIdle
    /\ ResampleIdle
    /\ SynthIdle
    /\ BlurIdle
    /\ IsoIdle
    /\ IOIdle
    /\ WaterIdle
    /\ NormIdle
    /\ TriIdle
    /\ ChaosIdle

SizeNext ==
    \/ SizeCheck
    \/ AllocGrids

SpecSize == SizeInit /\ [][SizeNext]_vars

(***************************************************************************)
(* iso.c: fill_tri and put_px on their own                                 *)
(***************************************************************************)
\* framebuffer sides and vertex coordinates tried: vertices left of, inside
\* and beyond the framebuffer
TriSides == {2, 3}

TriCoords == {0 - 2, 0, 1, 4}

\* put_px: the bytes stored for the pixel (x,y), as <<x, y, offset>>
put_px(FW, FH, x, y) ==
    IF x < 0 \/ y < 0 \/ x >= FW \/ y >= FH THEN {}
    ELSE {<<x, y, (y * FW + x) * 3 + c>> : c \in 0 .. 2}

\* the test of fill_tri with its second half left out
SameSign_positive_only(w0, w1, w2) == w0 >= 0 /\ w1 >= 0 /\ w2 >= 0

\* (w0 >= 0 && w1 >= 0 && w2 >= 0) || (w0 <= 0 && w1 <= 0 && w2 <= 0)
SameSign(w0, w1, w2) ==
    \/ (w0 >= 0 /\ w1 >= 0 /\ w2 >= 0)
    \/ (w0 <= 0 /\ w1 <= 0 /\ w2 <= 0)

\* fill_tri: the stores of the two loops over the clipped bounding box
fill_tri_stores(FW, FH, p0, p1, p2) ==
    LET bx0 == Min3(p0[1], p1[1], p2[1])
        bx1 == Max3(p0[1], p1[1], p2[1])
        by0 == Min3(p0[2], p1[2], p2[2])
        by1 == Max3(p0[2], p1[2], p2[2])
        minx == IF bx0 < 0 THEN 0 ELSE bx0
        miny == IF by0 < 0 THEN 0 ELSE by0
        maxx == IF bx1 >= FW THEN FW - 1 ELSE bx1
        maxy == IF by1 >= FH THEN FH - 1 ELSE by1
        A01 == p0[2] - p1[2]
        B01 == p1[1] - p0[1]
        A12 == p1[2] - p2[2]
        B12 == p2[1] - p1[1]
        A20 == p2[2] - p0[2]
        B20 == p0[1] - p2[1]
    IN  UNION {IF SameSign((x - p1[1]) * A12 + (y - p1[2]) * B12,
                           (x - p2[1]) * A20 + (y - p2[2]) * B20,
                           (x - p0[1]) * A01 + (y - p0[2]) * B01)
               THEN put_px(FW, FH, x, y)
               ELSE {} : x \in minx .. maxx, y \in miny .. maxy}

\* fill_tri(fb, W, H, x0, y0, x1, y1, x2, y2, r, g, b)
FillTriCall ==
    /\ tpc = "start"
    /\ tri_stores' = fill_tri_stores(tri_W, tri_H, tri_p[1], tri_p[2], tri_p[3])
    /\ tpc' = "filled"
    /\ UNCHANGED notTri
    /\ UNCHANGED <<tri_W, tri_H, tri_p>>

\* the caller goes on (fill_quad's second triangle, the next face)
FillTriReturn ==
    /\ tpc = "filled"
    /\ tpc' = "returned"
    /\ UNCHANGED notTri
    /\ UNCHANGED <<tri_W, tri_H, tri_p, tri_stores>>

TriInit ==
    /\ tri_W \in TriSides
    /\ tri_H \in TriSides
    /\ tri_p \in [1 .. 3 -> TriCoords \X TriCoords]
    /\ tri_stores = {}
    /\ tpc = "start"
    /\ FloodIdle
    /\ ResampleIdle
    /\ SynthIdle
    /\ BlurIdle
    /\ IsoIdle
    /\ IOIdle
    /\ WaterIdle
    /\ NormIdle
    /\ SizeIdle
    /\ ChaosIdle

TriNext ==
    \/ FillTriCall
    \/ FillTriReturn

SpecTri == TriInit /\ [][TriNext]_vars

(***************************************************************************)
(* fractale_static.c (command-line version): -r, the chaos game            *)
(***************************************************************************)
\* #define WIDTH 20, #define HEIGHT 20
WIDTH == 20

HEIGHT == 20

\* the range of an int
INT_MAX == 2147483647

INT_MIN == 0 - INT_MAX - 1

Abs(a) == IF a < 0 THEN 0 - a ELSE a

\* p * q modulo 2^16 for two 16-bit limbs, by the bytes of q
MulMod16(p, q) == (p * (q % 256) + ((p * (q \div 256)) % 256) * 256) % 65536

\* a * b as an int multiplication delivers it when the exact product does not
\* fit: the low 32 bits, read as two's complement
WrapMul(a, b) ==
    LET al == a % 65536
        ah == (a \div 65536) % 65536
        bl == b % 65536
        bh == (b \div 65536) % 65536
        t0 == al * (bl % 256)
        t1 == al * (bl \div 256)
        lo == (t0 % 65536) + (t1 % 256) * 256
        hi == ((t0 \div 65536) + (t1 \div 256) + (lo \div 65536)
                 + MulMod16(ah, bl) + MulMod16(al, bh)) % 65536
    IN  IF hi >= 32768
        THEN (hi - 65536) * 65536 + (lo % 65536)
        ELSE hi * 65536 + (lo % 65536)

\* the exact product a * b is outside the range of an int
MulOverflows(a, b) == a # 0 /\ b # 0 /\ Abs(a) > INT_MAX \div Abs(b)

\* a / b in C: the quotient truncated toward zero
CDiv(a, b) ==
    LET q == Abs(a) \div Abs(b)
    IN  IF (a < 0) = (b < 0) THEN q ELSE 0 - q

\* the arguments given to -r: well-formed "a/b" strings, a string without a
\* slash, a string with characters after b
RatioArgs ==
    {[form |-> "a/b", a |-> r[1], b |-> r[2]] :
        r \in {<<0, 1>>, <<1, 2>>, <<2, 3>>, <<1, 1>>,
               <<200000000, 200000000>>, <<3, 2>>, <<1, 0>>, <<1, 0 - 2>>}}
    \cup {[form |-> "a", a |-> 1, b |-> 0], [form |-> "a/bx", a |-> 1, b |-> 2]}

\* weights given to -w
WeightArgs == {<<1, 1, 1>>, <<3, 0, 1>>}

\* parse_ratio: 0 (TRUE here) when s is a/b with b # 0, -1 otherwise
parse_ratio(s) == s.form = "a/b" /\ s.b # 0

\* choose_vertex for the value r of rand() % sum
choose_vertex(w0, w1, w2, r) ==
    IF r < w0 THEN 0 ELSE IF r < w0 + w1 THEN 1 ELSE 2

\* sum of the weights, 1 if it is not positive
WeightSum(w) == IF w[1] + w[2] + w[3] <= 0 THEN 1 ELSE w[1] + w[2] + w[3]

\* vx[], vy[]: bottom left, bottom right, top centre
vx == <<0, WIDTH - 1, WIDTH \div 2>>

vy == <<HEIGHT - 1, HEIGHT - 1, 0>>

GridPoints == (0 .. (WIDTH - 1)) \X (0 .. (HEIGHT - 1))

\* main, the -r branch: parse_ratio stores a and b on success; a failure or
\* RATIO_DEN == 0 prints the message and returns 1.  Then the counters are
\* cleared and the point is put at the centre.
ParseRatio ==
    /\ cpc = "args"
    /\ IF parse_ratio(r_arg)
       THEN /\ RATIO_NUM' = r_arg.a
            /\ RATIO_DEN' = r_arg.b
            /\ cpc' = "loop"
            /\ UNCHANGED <<cg_exit, cg_msg>>
       ELSE /\ cg_msg' = TRUE
            /\ cg_exit' = 1
            /\ cpc' = "exited"
            /\ UNCHANGED <<RATIO_NUM, RATIO_DEN>>
    /\ UNCHANGED notChaos
    /\ UNCHANGED <<r_arg, ITERATIONS, WARMUP, cw, cg_x, cg_y, cg_i, hits, maxhit>>

\* one turn of for (i = 0; i < ITERATIONS; ++i).  A product that does not fit
\* an int is undefined: the build delivers the wrapped product, or traps.
ChaosStep ==
    /\ cpc = "loop"
    /\ cg_i < ITERATIONS
    /\ \E r \in 0 .. (WeightSum(cw) - 1) :
          LET v == choose_vertex(cw[1], cw[2], cw[3], r) + 1
              ddx == vx[v] - cg_x
              ddy == vy[v] - cg_y
              px == IF MulOverflows(ddx, RATIO_NUM) THEN WrapMul(ddx, RATIO_NUM) ELSE ddx * RATIO_NUM
              nx == cg_x + CDiv(px, RATIO_DEN)
              py == IF MulOverflows(ddy, RATIO_NUM) THEN WrapMul(ddy, RATIO_NUM) ELSE ddy * RATIO_NUM
              ny == cg_y + CDiv(py, RATIO_DEN)
              counted == cg_i >= WARMUP /\ <<nx, ny>> \in GridPoints
          IN  \/ /\ cg_x' = nx
                 /\ cg_y' = ny
                 /\ hits' = IF counted THEN [hits EXCEPT ![<<nx, ny>>] = @ + 1] ELSE hits
                 /\ maxhit' = IF counted /\ hits[<<nx, ny>>] + 1 > maxhit
                              THEN hits[<<nx, ny>>] + 1
                              ELSE maxhit
                 /\ cg_i' = cg_i + 1
                 /\ UNCHANGED cpc
              \/ /\ MulOverflows(ddx, RATIO_NUM) \/ MulOverflows(ddy, RATIO_NUM)
                 /\ cpc' = "trapped"
                 /\ UNCHANGED <<cg_x, cg_y, hits, maxhit, cg_i>>
    /\ UNCHANGED notChaos
    /\ UNCHANGED <<r_arg, RATIO_NUM, RATIO_DEN, ITERATIONS, WARMUP, cw, cg_exit, cg_msg>>

\* the loop is over: the grid is rendered and main returns 0
ChaosRender ==
    /\ cpc = "loop"
    /\ cg_i >= ITERATIONS
    /\ cg_exit' = 0
    /\ cpc' = "exited"
    /\ UNCHANGED notChaos
    /\ UNCHANGED <<r_arg, RATIO_NUM, RATIO_DEN, ITERATIONS, WARMUP, cw, cg_x, cg_y,
                   cg_i, hits, maxhit, cg_msg>>

ChaosInit ==
    /\ r_arg \in RatioArgs
    /\ RATIO_NUM = 1
    /\ RATIO_DEN = 2
    /\ ITERATIONS \in 0 .. MaxIter
    /\ WARMUP \in {0, 1, MaxIter + 1}
    /\ cw \in WeightArgs
    /\ cg_x = WIDTH \div 2
    /\ cg_y = HEIGHT \div 2
    /\ cg_i = 0
    /\ hits = [p \in GridPoints |-> 0]
    /\ maxhit = 0
    /\ cg_exit = 0 - 1
    /\ cg_msg = FALSE
    /\ cpc = "args"
    /\ FloodIdle
    /\ ResampleIdle
    /\ SynthIdle
    /\ BlurIdle
    /\ IsoIdle
    /\ IOIdle
    /\ WaterIdle
    /\ NormIdle
    /\ SizeIdle
    /\ TriIdle

ChaosNext ==
    \/ ParseRatio
    \/ ChaosStep
    \/ ChaosRender

SpecChaos == ChaosInit /\ [][ChaosNext]_vars

(***************************************************************************)
(* Water: what the flood is meant to compute                               *)
(***************************************************************************)
\* the cells <= level joined to a cell of S by a 4-connected path of cells <= level
RECURSIVE Closure(_)
Closure(S) ==
    LET N == S \cup {d \in Cells : h[d] <= level /\ \E c \in S : Adjacent(c, d)}
    IN  IF N = S THEN S ELSE Closure(N)

MaskOf(S) == [c \in Cells |-> IF c \in S THEN 1 ELSE 0]

FloodEnded == fpc \in {"done", "aborted"}

AllBelow == \A c \in Cells : h[c] <= level

\* C1: every cell the edge flood marks as water (with or without a seed) is
\* also marked by mark_all_below at the same level
C1_EdgeFloodWithinFillAll ==
    \A c \in Cells : mask[c] = 1 => mark_all_below(h, level)[c] = 1

\* the flood returned, marked some cell, and left dry a cell that fill-all marks
C1_Witness ==
    /\ fpc = "done"
    /\ ~alloc_failed
    /\ \E c \in Cells : mask[c] = 1
    /\ \E c \in Cells : mask[c] = 0 /\ mark_all_below(h, level)[c] = 1

\* C2: without a seed (and with the queue allocated) the flood returns with
\* mask = the cells <= level joined to a border cell <= level; in particular a
\* grid that is entirely <= level ends entirely water
C2_EdgeFloodExact ==
    (seed_set = 0 /\ ~alloc_failed) =>
        /\ fpc = "done" => mask = MaskOf(Closure(BorderSources))
        /\ (AllBelow /\ FloodEnded) => (fpc = "done" /\ mask = MaskOf(Cells))

\* C3: no cell is put on the queue more than once
C3_EnqueuedAtMostOnce == \A c \in Cells : enq[c] <= 1

\* C4: whatever order the pending cells are taken in, the flood ends with the
\* mask the code's FIFO run produced
C4_OrderIndependent ==
    (apc = "done" /\ FloodEnded /\ ~alloc_failed) => (fpc = "done" /\ mask = amask)

\* C5: with a seed inside the grid the flood ends with the cells reachable from
\* the border sources or the seed when the seed cell is <= level, and with the
\* mask of the seedless flood when it is above
C5_SeedAddsItsBasin ==
    (seed_set = 1 /\ ~alloc_failed /\ FloodEnded) =>
        /\ fpc = "done"
        /\ h[SeedCell] <= level => mask = MaskOf(Closure(BorderSources \cup {SeedCell}))
        /\ h[SeedCell] > level => mask = MaskOf(Closure(BorderSources))

(***************************************************************************)
(* Resampling                                                              *)
(***************************************************************************)
Resampled == rpc \in {"geo", "plasma"}

\* the denominator the resampler that ran uses for an output extent n
RanDenom(n) == IF rpc = "geo" THEN geo_denom(n) ELSE plasma_denom(n)

ColumnZeroSample(y) ==
    LET dY == RanDenom(rH)
        v0 == Floor0(y, rP, dY)
    IN  DLerp(rsrc[v0 * rP], rsrc[Index1(v0, rP) * rP], FracNum(y, rP, dY), dY)

\* the same for a source coordinate 0 along y: the source row 0
RowZeroSample(x) ==
    LET dX == RanDenom(rW)
        u0 == Floor0(x, rP, dX)
    IN  DLerp(rsrc[u0], rsrc[Index1(u0, rP)], FracNum(x, rP, dX), dX)

\* C11: with W = 1 or H = 1 the resampler of either generator takes the
\* corresponding denominator as 1, divides by no zero, and the single column
\* (row) samples the source coordinate 0: a W x H grid is produced.
C11_UnitExtentDenominator ==
    (rpc # "ready" /\ (rW = 1 \/ rH = 1)) =>
        /\ Resampled
        /\ rW = 1 =>
              /\ RanDenom(rW) = 1
              /\ \A y \in 0 .. (rH - 1) : rH > 1 => rout[y * rW] = ColumnZeroSample(y)
        /\ rH = 1 =>
              /\ RanDenom(rH) = 1
              /\ \A x \in 0 .. (rW - 1) : rW > 1 => rout[x] = RowZeroSample(x)
        /\ (rW = 1 /\ rH = 1) => rout[0] = rsrc[0]

(***************************************************************************)
(* Synthesis: determinism, range, diamond pass                             *)
(***************************************************************************)
\* ds_generate has returned (main goes on with the resample, the smoothing)
Generated == spc \in {"resample", "smooth", "done"}

\* resample_bilinear has returned
Resampled2D == spc \in {"smooth", "done"}

InUnit(v) == v # NaN /\ v # Uninit /\ 0 <= v /\ v <= ONE

\* C6: two runs of geo's synthesis with the same seed, amplitude, roughness
\* and side P produce identical P x P grids: once the second ds_generate has
\* returned, its grid equals the grid of the first run.
C6_SynthesisDeterministic ==
    (gen = "geo" /\ run = 2 /\ Generated) => ds = first.ds

\* C7: every cell geo produces lies in [0,1] after each stage: the P x P grid
\* after ds_generate, the W x H grid after resample_bilinear and after every
\* smooth_box pass.
C7_CellsInUnitInterval ==
    gen = "geo" =>
        /\ Generated => \A c \in DOMAIN ds : InUnit(ds[c])
        /\ Resampled2D => \A c \in DOMAIN map : InUnit(map[c])

\* the value a generator stores: geo clamps it to [0,1], plasma does not
Stored(v) == IF gen = "geo" THEN clamp01d(v) ELSE v

\* C8: in the diamond pass of both generators the value written at the centre
\* (x,y) is the mean of the four cells (x-half,y-half), (x+half,y-half),
\* (x-half,y+half), (x+half,y+half) plus the random offset (clamped in geo);
\* no other cell contributes.
C8_DiamondIsMeanOfCorners ==
    last.kind = "diamond" =>
        LET a == ds[(last.y - last.half) * dsP + (last.x - last.half)]
            b == ds[(last.y - last.half) * dsP + (last.x + last.half)]
            c == ds[(last.y + last.half) * dsP + (last.x - last.half)]
            d == ds[(last.y + last.half) * dsP + (last.x + last.half)]
        IN  ds[last.y * dsP + last.x] =
                Stored(DAdd(DQuarter(DAdd(DAdd(DAdd(a, b), c), d)), last.off))

(***************************************************************************)
(* Smoothing                                                               *)
(***************************************************************************)
\* C13: box_blur with r <= 0 or p <= 0, and smooth_box with passes <= 0, leave
\* every cell of the grid unchanged.
C13_SmoothingNoOp ==
    /\ (bpc = "box_blur" /\ (br <= 0 \/ bp <= 0)) => bout = bgrid
    /\ (bpc = "smooth_box" /\ bp <= 0) => bout = bgrid

\* box_blur returned from a call with a negative radius, one pass, on a grid
\* that is not constant
C13_Witness ==
    /\ bpc = "box_blur"
    /\ br < 0
    /\ bp = 1
    /\ \E c, d \in DOMAIN bgrid : bgrid[c] # bgrid[d]

(***************************************************************************)
(* Synthesis: the side P                                                   *)
(***************************************************************************)
MaxOfGrid == IF GRID_W > GRID_H THEN GRID_W ELSE GRID_H

\* 2^m + 1 for some m >= 0
IsPow2Plus1(v) == \E m \in 0 .. v : Pow(2, m) + 1 = v

\* C12: the side P chosen for an accepted size (W,H) is of the form 2^n + 1,
\* is at least max(W,H), and no 2^m + 1 (m >= 0) with max(W,H) <= 2^m + 1 < P
\* exists, in geo (main's n loop) and in plasma (pow2plus1_at_least).
C12_SideIsMinimal ==
    gen \in {"geo", "plasma"} =>
        /\ IsPow2Plus1(dsP)
        /\ dsP >= MaxOfGrid
        /\ ~ \E m \in 0 .. dsP : MaxOfGrid <= Pow(2, m) + 1 /\ Pow(2, m) + 1 < dsP

(***************************************************************************)
(* iso: painting order, framebuffer size, shading                          *)
(***************************************************************************)
IsoCells == {c \in (0 .. (iso_W - 1)) \X (0 .. (iso_H - 1)) : TRUE}

\* side faces first, then the two triangles of the top
FaceRank(f) == IF f \in {"left", "right"} THEN 0 ELSE 1

\* how many times the face f of the cell c is in the list of painted faces
TimesPainted(c, f) ==
    Cardinality({k \in 1 .. Len(painted) : painted[k] = <<c[1], c[2], f>>})

\* C14: every cell is painted exactly once, in nondecreasing s = gx + gy with
\* ties in increasing gx, so that every face of a cell with smaller s comes
\* before any face of a cell with larger s; within a cell the two side faces
\* come before the two triangles of the top face.
C14_PainterOrder ==
    /\ \A j, k \in 1 .. Len(painted) :
          j < k =>
             LET a == painted[j]
                 b == painted[k]
             IN  /\ a[1] + a[2] <= b[1] + b[2]
                 /\ a[1] + a[2] = b[1] + b[2] => a[1] <= b[1]
                 /\ (a[1] = b[1] /\ a[2] = b[2]) => FaceRank(a[3]) <= FaceRank(b[3])
    /\ \A c \in IsoCells : \A f \in {"left", "right", "top_a", "top_b"} :
          /\ TimesPainted(c, f) <= 1
          /\ ipc = "painted" => TimesPainted(c, f) = 1

\* the loop is over for a 2 x 2 grid: four cells, three values of s
C14_Witness ==
    /\ ipc = "painted"
    /\ iso_W = 2
    /\ iso_H = 2
    /\ Len(painted) = 16

\* the seven points of the column of a cell
ColumnPoints(gx, gy) ==
    LET v == IsoVertices(gx, gy)
    IN  {v.top, v.left, v.right, v.bot, v.b_left, v.b_right, v.b_bot}

\* C15: the framebuffer holds the whole projection: every vertex of every
\* painted column (top rhombus and the three base points) has
\* 0 <= x < FB_W and 0 <= y < FB_H, for every tile size >= 1, zs >= 0 and
\* elevations in [0,1].
C15_ColumnsInsideFramebuffer ==
    \A k \in 1 .. Len(painted) :
        \A pt \in ColumnPoints(painted[k][1], painted[k][2]) :
            /\ 0 <= pt[1] /\ pt[1] < FB_W
            /\ 0 <= pt[2] /\ pt[2] < FB_H

\* every cell of the grid has the elevation of the cell 0
FlatGrid == \A c \in DOMAIN hmap : hmap[c] = hmap[0]

Grey(v) == <<v, v, v>>

PixelColours == {fb[k] : k \in DOMAIN fb}

\* the colours a flat grid of elevation hv may leave in the framebuffer
FlatPalette(hv) == {BG, Grey(g_top(hv)), Grey(g_left(hv)), Grey(g_right(hv))}

\* C16 as stated: a flat grid leaves only the background colour, the top grey
\* g_top = round(255 h) and exactly two side greys (g_top*80/100 on the left,
\* g_top*60/100 on the right), both darker than the top grey.
C16_FlatShading ==
    (ipc = "painted" /\ FlatGrid) =>
        /\ PixelColours \subseteq FlatPalette(hmap[0])
        /\ g_left(hmap[0]) < g_top(hmap[0])
        /\ g_right(hmap[0]) < g_top(hmap[0])

\* C16 amended: a flat grid leaves only the background colour, the top grey
\* and the two side greys, with right <= left <= top; the side greys are
\* darker than the top grey when g_top >= 1 and differ from each other when
\* g_top >= 3.
C16_FlatShadingAmended ==
    (ipc = "painted" /\ FlatGrid) =>
        /\ PixelColours \subseteq FlatPalette(hmap[0])
        /\ g_right(hmap[0]) <= g_left(hmap[0])
        /\ g_left(hmap[0]) <= g_top(hmap[0])
        /\ g_top(hmap[0]) >= 1 =>
              (g_left(hmap[0]) < g_top(hmap[0]) /\ g_right(hmap[0]) < g_top(hmap[0]))
        /\ g_top(hmap[0]) >= 3 => g_right(hmap[0]) < g_left(hmap[0])

\* a flat 2 x 2 grid of elevation 1.0 was painted and the image shows the
\* top grey and both side greys
C16_Witness ==
    /\ ipc = "painted"
    /\ FlatGrid
    /\ iso_W = 2
    /\ iso_H = 2
    /\ hmap[0] = HDen
    /\ {Grey(g_top(HDen)), Grey(g_left(HDen)), Grey(g_right(HDen))} \subseteq PixelColours

(***************************************************************************)
(* iso, geo: malformed input, output file                                  *)
(***************************************************************************)
\* the number of values at the head of the text that parse as numbers
RECURSIVE LeadingNumbers(_, _)
LeadingNumbers(tokens, k) ==
    IF k <= Len(tokens) /\ tokens[k] = "num" THEN 1 + LeadingNumbers(tokens, k + 1) ELSE 0

\* fewer than W*H parseable values: the text is too short, or one of the
\* first W*H tokens is not a number
InputShort == LeadingNumbers(in_tokens, 1) < ncells

Exited == iopc = "exited"

\* C17: when the input holds fewer than W*H parseable values, iso exits with
\* a non-zero status after a message on stderr, and the output path is as it
\* was before the run: neither created nor truncated.
C17_ShortInputRejected ==
    (prog = "iso" /\ Exited /\ InputShort) =>
        /\ exit_status # 0
        /\ errmsg
        /\ out_file = out_before

\* iso read one value, met a token that is not a number and exited; the
\* image of an earlier run is at the output path
C17_Witness ==
    /\ prog = "iso"
    /\ Exited
    /\ ncells = 2
    /\ nread = 1
    /\ in_tokens = <<"num", "bad", "num">>
    /\ out_before = OldImage

\* C18: iso exits with a non-zero status whenever the number of values of the
\* input differs from W*H, an input of more than W*H values included.
C18_CountMismatchRejected ==
    (prog = "iso" /\ Exited /\ Len(in_tokens) # ncells) => exit_status # 0

\* C19: after any failure of geo or iso the output path never holds a header
\* followed by fewer than the W*H*3 pixel bytes of the image.
C19_NoPartialImage ==
    (Exited /\ exit_status # 0) => ~(out_file.state = "header" /\ out_file.bytes < want)

(***************************************************************************)
(* Allocation failures                                                     *)
(***************************************************************************)
\* C20: when a malloc returns NULL (here the temporary buffer of smooth_box or
\* box_blur) the program ends with a non-zero status and a message, and
\* prints no grid computed from the stage that was cut short.
C20_AllocFailureAborts ==
    (bpc = "exited" /\ tmp_failed) =>
        /\ bexit # 0
        /\ bmsg
        /\ ~bprinted

(***************************************************************************)
(* Value output of geo                                                     *)
(***************************************************************************)
MaxOf(a, b) == IF a >= b THEN a ELSE b

\* C21: with water and --values-with-water the value printed for a cell is
\* max(h, level) if the cell is in the water mask and h otherwise, under the
\* edge flood and under fill-all; without the option it is h for every cell
C21_ValuesWithWater ==
    wpc = "printed" =>
        \A c \in 0 .. (W * H - 1) :
            printed[c] = IF VALUES_WITH_WATER = 1 /\ mask[c] = 1
                         THEN MaxOf(h[c], level)
                         ELSE h[c]

\* values were printed with the option on, for a masked cell strictly below
\* the level and a cell out of the mask, after an edge flood
C21_Witness ==
    /\ wpc = "printed"
    /\ VALUES_WITH_WATER = 1
    /\ WATER_FROM_EDGE = 1
    /\ \E c \in 0 .. (W * H - 1) : mask[c] = 1 /\ h[c] < level /\ printed[c] = level
    /\ \E c \in 0 .. (W * H - 1) : mask[c] = 0 /\ printed[c] = h[c]

(***************************************************************************)
(* Normalisation                                                           *)
(***************************************************************************)
\* C22: after normalize01 on N >= 1 finite values, if max - min > 1e-12 the
\* minimum maps to 0, the maximum to 1 and every cell is in [0,1]; otherwise
\* every cell is 0.5
C22_NormalizedInUnit ==
    npc = "done" =>
        LET mn == ScanMin(ngrid, 2, ngrid[1])
            mx == ScanMax(ngrid, 2, ngrid[1])
        IN  IF mx - mn > 0
            THEN \A k \in 1 .. Len(ngrid) :
                    /\ nout[k] >= 0 /\ nout[k] <= ONE
                    /\ ngrid[k] = mn => nout[k] = 0
                    /\ ngrid[k] = mx => nout[k] = ONE
            ELSE \A k \in 1 .. Len(ngrid) : nout[k] = ONE \div 2

(***************************************************************************)
(* plasma: size guard                                                      *)
(***************************************************************************)
\* C23: for every width/height pair that passes the size check, no buffer
\* plasma then allocates holds more than MAX_CELLS doubles, the n x n
\* synthesis grid included
C23_AllocationsBounded ==
    szpc \in {"allocated", "nomem"} =>
        /\ src_cells <= MAX_CELLS
        /\ dst_cells <= MAX_CELLS

(***************************************************************************)
(* Flood: queue capacity                                                   *)
(***************************************************************************)
\* C24: every store to queue_x[qt] / queue_y[qt] has qt < W*H: the number of
\* stores made so far never exceeds the capacity qcap = W*H
C24_QueueStoresInBounds == qt <= W * H

(***************************************************************************)
(* Synthesis: cells read by the generators                                 *)
(***************************************************************************)
\* the cell idx of the synthesis buffer exists and has been written
Written(idx) == idx \in DOMAIN ds /\ ds[idx] # Uninit

ClampIdx(v) == IF v < 0 THEN 0 ELSE IF v >= dsP THEN dsP - 1 ELSE v

\* the cells the diamond pass is about to read for the centre (dsx,dsy)
DiamondReads ==
    LET half == step \div 2
    IN  IF gen = "geo"
        THEN {GeoDiamondA(dsx, dsy, half, step, dsP), GeoDiamondB(dsx, dsy, half, step, dsP),
              GeoDiamondC(dsx, dsy, half, step, dsP), GeoDiamondD(dsx, dsy, half, step, dsP)}
        ELSE {ClampIdx(dsy + j) * dsP + ClampIdx(dsx + k) : j, k \in {0 - half, half}}

\* the cells the square pass is about to read for the point (dsx,dsy)
SquareReads ==
    LET half == step \div 2
    IN  {(dsy + n[2]) * dsP + (dsx + n[1]) :
            n \in {m \in {<<0 - half, 0>>, <<half, 0>>, <<0, 0 - half>>, <<0, half>>} :
                      /\ dsx + m[1] >= 0 /\ dsx + m[1] < dsP
                      /\ dsy + m[2] >= 0 /\ dsy + m[2] < dsP}}

\* C25: during diamond-square on a freshly allocated P x P buffer, P >= 3,
\* every cell is written before it is first read, and every cell has been
\* written when the generator returns
C25_WrittenBeforeRead ==
    (gen \in {"geo", "plasma"} /\ dsP >= 3) =>
        /\ spc = "diamond" => \A idx \in DiamondReads : Written(idx)
        /\ spc = "square" => \A idx \in SquareReads : Written(idx)
        /\ Generated => \A c \in DOMAIN ds : Written(c)

\* the same for plasma's diamond_square alone
PlasmaWrittenBeforeRead == gen = "plasma" => C25_WrittenBeforeRead

(***************************************************************************)
(* Smoothing: composition of the passes                                    *)
(***************************************************************************)
\* the single-pass clamped-border box filter applied k times in sequence
RECURSIVE FilterTimes(_, _)
FilterTimes(gr, k) ==
    IF k <= 0 THEN gr ELSE FilterTimes(box_blur_pass(gr, bW, bH, br, NaN), k - 1)

\* C26: for every radius r >= 1 and pass count p >= 1, when box_blur returns
\* the caller's grid holds the single-pass filter applied p times in sequence
C26_PassesCompose ==
    (bpc = "box_blur" /\ br >= 1 /\ bp >= 1) => bout = FilterTimes(bgrid, bp)

\* the same when the malloc of tmp returned memory
PassesComposeWhenAllocated == tmp_failed \/ C26_PassesCompose

(***************************************************************************)
(* iso: triangle fill                                                      *)
(***************************************************************************)
\* the edge function of the directed edge a -> b at the point (x,y)
EdgeFn(a, b, x, y) == (x - a[1]) * (b[2] - a[2]) - (y - a[2]) * (b[1] - a[1])

\* (x,y) is in the bounding box of the three vertices
InBox(x, y) ==
    /\ Min3(tri_p[1][1], tri_p[2][1], tri_p[3][1]) <= x
    /\ x <= Max3(tri_p[1][1], tri_p[2][1], tri_p[3][1])
    /\ Min3(tri_p[1][2], tri_p[2][2], tri_p[3][2]) <= y
    /\ y <= Max3(tri_p[1][2], tri_p[2][2], tri_p[3][2])

\* the three edge functions at (x,y) are all >= 0 or all <= 0
EdgesAgree(x, y) ==
    LET e0 == EdgeFn(tri_p[1], tri_p[2], x, y)
        e1 == EdgeFn(tri_p[2], tri_p[3], x, y)
        e2 == EdgeFn(tri_p[3], tri_p[1], x, y)
    IN  \/ (e0 >= 0 /\ e1 >= 0 /\ e2 >= 0)
        \/ (e0 <= 0 /\ e1 <= 0 /\ e2 <= 0)

\* twice the signed area of the triangle: its sign is the winding order
Winding == EdgeFn(tri_p[1], tri_p[2], tri_p[3][1], tri_p[3][2])

PixelRange == (0 - 3) .. 5

\* C27: fill_tri writes the pixel (x,y) if and only if (x,y) lies inside the
\* framebuffer, inside the bounding box of the triangle, and the three edge
\* functions at (x,y) are all >= 0 or all <= 0; it never writes a byte
\* outside the W*H*3 framebuffer, whatever the vertices and their winding
C27_FillTriExact ==
    tpc = "filled" =>
        /\ \A x \in PixelRange, y \in PixelRange :
              (\E s \in tri_stores : s[1] = x /\ s[2] = y) <=>
                  /\ 0 <= x /\ x < tri_W /\ 0 <= y /\ y < tri_H
                  /\ InBox(x, y)
                  /\ EdgesAgree(x, y)
        /\ \A s \in tri_stores :
              /\ s[1] \in PixelRange /\ s[2] \in PixelRange
              /\ 0 <= s[3] /\ s[3] < tri_W * tri_H * 3

\* a triangle of either winding with a vertex left of the framebuffer and one
\* beyond it was filled: some pixels stored, some pixels of the framebuffer not
C27_Witness ==
    /\ tpc = "filled"
    /\ Winding > 0
    /\ \E k \in 1 .. 3 : tri_p[k][1] < 0
    /\ \E k \in 1 .. 3 : tri_p[k][1] >= tri_W
    /\ tri_stores # {}
    /\ \E x \in 0 .. (tri_W - 1), y \in 0 .. (tri_H - 1) :
          ~ \E s \in tri_stores : s[1] = x /\ s[2] = y

(***************************************************************************)
(* Flood: termination                                                      *)
(***************************************************************************)
\* the while loop of the BFS has been left (or was never entered)
BfsOver == (fpc = "bfs" /\ qh >= qt) \/ fpc \in {"done", "aborted"}

\* the flood leaves its loop after finitely many steps
FloodTerminates == <>BfsOver

\* every cell marked in the mask was dequeued and had its neighbours examined
MarkedWereExpanded == BfsOver => \A c \in Cells : mask[c] = 1 => c \in deq

\* C28: the flood always terminates: the BFS loop reaches qh == qt after
\* finitely many steps, and at that point every cell with mask 1 has been
\* dequeued and had its four neighbours examined
C28_FloodTerminatesComplete == FloodTerminates /\ []MarkedWereExpanded

(***************************************************************************)
(* fractale: chaos game, ratio option                                      *)
(***************************************************************************)
RECURSIVE SumHits(_)
SumHits(S) ==
    IF S = {} THEN 0
    ELSE LET p == CHOOSE q \in S : TRUE IN hits[p] + SumHits(S \ {p})

\* the sum of all the counters (the zero counters add nothing)
TotalHits == SumHits({p \in GridPoints : hits[p] # 0})

LargestHit == CHOOSE m \in {hits[p] : p \in GridPoints} : \A p \in GridPoints : hits[p] <= m

\* C29: whenever 0 <= RATIO_NUM <= RATIO_DEN and RATIO_DEN > 0, the point
\* stays inside the grid after every iteration, so every iteration with index
\* >= WARMUP increments exactly one counter, the sum of all hits equals
\* max(0, ITERATIONS - WARMUP), and maxhit equals the largest counter
C29_PointStaysInGrid ==
    (cpc \in {"loop", "exited"} /\ cg_exit # 1
       /\ 0 <= RATIO_NUM /\ RATIO_NUM <= RATIO_DEN /\ RATIO_DEN > 0) =>
        /\ <<cg_x, cg_y>> \in GridPoints
        /\ TotalHits = MaxOf(0, cg_i - WARMUP)
        /\ cpc = "exited" => TotalHits = MaxOf(0, ITERATIONS - WARMUP)
        /\ maxhit = LargestHit

\* the same for the ratios whose products with a distance in the grid fit an int
PointStaysInGridSmallRatio ==
    RATIO_NUM <= INT_MAX \div WIDTH => C29_PointStaysInGrid

\* C30: for every argument a/b of -r whose denominator b is zero or negative,
\* parse_ratio fails, the program prints the invalid-ratio message and exits
\* with status 1, and RATIO_NUM / RATIO_DEN keep their previous values
C30_NonPositiveDenominatorRejected ==
    (cpc # "args" /\ r_arg.form = "a/b" /\ r_arg.b <= 0) =>
        /\ cpc = "exited"
        /\ cg_exit = 1
        /\ cg_msg
        /\ RATIO_NUM = 1
        /\ RATIO_DEN = 2

\* the same for a zero denominator alone
ZeroDenominatorRejected == r_arg.b = 0 => C30_NonPositiveDenominatorRejected

====
